---------------------------- MODULE Spec2Model ----------------------------
(***************************************************************************)
(* Scheduling supervisor (BotManager), tenant decision loops (BotEngine)   *)
(* and conditional order manager (AdvancedOrderManager) of the trading     *)
(* bot, as asyncio coroutines: every action is the code a coroutine runs   *)
(* between two suspension points (an await that really yields).            *)
(***************************************************************************)
EXTENDS Integers, Sequences, FiniteSets, TLC

\* ------------------------------------------------------------------ bounds
NumTenants == 2
MaxTasks == 3
MaxToggles == 1
MaxCalls == 2
MaxOrders == 2
TriggerOrders == 1
MaxFills == 2

Tenants == 1..NumTenants
TaskIds == 1..MaxTasks
Callers == 1..MaxCalls
NoTask == 0
OrderIds == 1..MaxOrders

VARIABLES
    is_active,       \* db.bot_configs: tenant -> is_active flag
    running,         \* BotManager.running
    active_bots,     \* BotManager.active_bots: tenant -> task id (NoTask: key absent)
    bot_engines,     \* BotManager.bot_engines: tenant -> engine id (NoTask: key absent)
    engine_running,  \* BotEngine.running of the engine created with task id t
    task_state,      \* asyncio.Task of engine.start(): none/created/tick/sleep/done
    task_user,       \* the user_id argument of the task's engine.start(user_id)
    must_cancel,     \* Task.cancel() was requested and not yet delivered
    mgr,             \* the start_manager coroutine: pc, cur, todo, waiting
    sm,              \* the stop_manager coroutine: pc, cur, todo, waiting
    api,             \* direct stop_bot calls in flight: caller -> pc, user, waiting
    toggles,         \* config changes made so far
    start_calls,     \* direct start_bot calls made so far
    stop_calls,      \* direct stop_bot calls made so far
    orders,          \* the order dictionaries the manager created, by id
    norders,         \* order ids (uuid4) handed out so far
    pending_orders,  \* AdvancedOrderManager.pending_orders: the ids in the index
    db_status,       \* db.pending_orders: the stored status of each order
    fills,           \* market orders the trading service filled, per order
    plc,             \* the place_*_order call in flight
    chk,             \* the check_pending_orders call: pc, cur, todo, price, log
    cnl,             \* the cancel_order call: pc, cur, result
    called,          \* the last call of a function of the risk gate or the
                     \* exit rules: its name, arguments and result
    bot_config,      \* db.bot_configs: the tenant's configuration document
    positions,       \* db.positions: the tenant's documents, in insertion order
    db_risk_metrics, \* db.risk_metrics: the tenant's snapshots, in insertion order
    trades,          \* db.trades: the tenant's documents, in insertion order
    market_orders,   \* market orders the engines submitted to the trading service
    market_analysis, \* db.market_analysis: the analyses written, in insertion order
    ticks,           \* trading cycles begun so far
    eng              \* the engine loops of the tenant: pc and local variables

mvars == <<is_active, running, active_bots, bot_engines, engine_running,
           task_state, task_user, must_cancel, mgr, sm, api,
           toggles, start_calls, stop_calls>>

botvars == <<active_bots, bot_engines, engine_running, task_state, task_user,
             must_cancel>>

ovars == <<orders, norders, pending_orders, db_status, fills, plc, chk, cnl>>

fvars == <<called>>

evars == <<bot_config, positions, db_risk_metrics, trades, market_orders,
           market_analysis, ticks, eng>>

xvars == <<fvars, evars>>

vars == <<mvars, ovars, xvars>>

\* ------------------------------------------------------- BotManager state
\* The dictionaries of BotManager and the tasks and engines they refer to, as
\* one value, so that start_bot and stop_bot are functions on it.
ManagerState ==
    [active_bots |-> active_bots, bot_engines |-> bot_engines,
     engine_running |-> engine_running, task_state |-> task_state,
     task_user |-> task_user, must_cancel |-> must_cancel]

SetManagerState(S) ==
    /\ active_bots' = S.active_bots
    /\ bot_engines' = S.bot_engines
    /\ engine_running' = S.engine_running
    /\ task_state' = S.task_state
    /\ task_user' = S.task_user
    /\ must_cancel' = S.must_cancel

\* Task.done()
done(S, t) == S.task_state[t] = "done"

Live(t) == task_state[t] \in {"created", "tick", "sleep"}

\* Task objects some coroutine is suspended on (await self.active_bots[user_id]).
Awaited ==
    {mgr.waiting, sm.waiting} \cup {api[c].waiting : c \in Callers}

\* A task id that names no task object any more: never used, or finished and
\* referenced by no dictionary and no awaiting coroutine.
Free(S, t) ==
    \/ S.task_state[t] = "none"
    \/ /\ S.task_state[t] = "done"
       /\ \A u \in Tenants : S.active_bots[u] # t /\ S.bot_engines[u] # t
       /\ t \notin Awaited

HasFree(S) == \E t \in TaskIds : Free(S, t)

FreshId(S) == CHOOSE t \in TaskIds : Free(S, t) /\ \A x \in TaskIds : Free(S, x) => t <= x


\* ------------------------------------------------------------- BotManager
\* start_bot without the already-running test of lines 56-58.
start_bot_unguarded(S, u) ==
    LET t == FreshId(S)
    IN  [S EXCEPT !.bot_engines[u] = t,
                  !.engine_running[t] = FALSE,
                  !.task_state[t] = "created",
                  !.task_user[t] = u,
                  !.must_cancel[t] = FALSE,
                  !.active_bots[u] = t]

\* start_bot (bot_manager.py 54-68): no await inside, so the whole body runs
\* without yielding to the event loop.
start_bot(S, u) ==
    IF S.active_bots[u] # NoTask /\ ~done(S, S.active_bots[u])
    THEN S
    ELSE LET t == FreshId(S)
         IN  [S EXCEPT !.bot_engines[u] = t,
                       !.engine_running[t] = FALSE,
                       !.task_state[t] = "created",
                       !.task_user[t] = u,
                       !.must_cancel[t] = FALSE,
                       !.active_bots[u] = t]

\* The call creates a task (and so needs a task id).
Creates(S, u) == S.active_bots[u] = NoTask \/ done(S, S.active_bots[u])

\* stop_bot without the membership test of line 72: the engine of an
\* unregistered tenant is stopped and removed before line 79 fails.
stop_bot_unchecked(S, u) ==
    LET e == S.bot_engines[u]
        t == S.active_bots[u]
        S1 == IF e # NoTask
              THEN [S EXCEPT !.engine_running[e] = FALSE,
                             !.bot_engines[u] = NoTask]
              ELSE S
    IN  IF t = NoTask THEN [S |-> S1, wait |-> NoTask]
        ELSE IF done(S1, t)
        THEN [S |-> [S1 EXCEPT !.active_bots[u] = NoTask], wait |-> NoTask]
        ELSE [S |-> [S1 EXCEPT !.must_cancel[t] = TRUE], wait |-> t]

\* stop_bot up to its await (bot_manager.py 72-81): engine.stop() has no await
\* and does not yield; awaiting a task that is already done does not yield
\* either, so the del of line 85 then runs in the same step.  wait is the
\* task the caller is suspended on, NoTask when the call has completed.
stop_bot_begin(S, u) ==
    IF S.active_bots[u] = NoTask
    THEN [S |-> S, wait |-> NoTask]
    ELSE LET e == S.bot_engines[u]
             t == S.active_bots[u]
             S1 == IF e # NoTask
                   THEN [S EXCEPT !.engine_running[e] = FALSE,
                                  !.bot_engines[u] = NoTask]
                   ELSE S
         IN  IF done(S1, t)
             THEN [S |-> [S1 EXCEPT !.active_bots[u] = NoTask], wait |-> NoTask]
             ELSE [S |-> [S1 EXCEPT !.must_cancel[t] = TRUE], wait |-> t]

\* stop_bot after its await (bot_manager.py 85): del self.active_bots[user_id]
\* raises KeyError when the key is gone.
stop_bot_end(S, u) ==
    IF S.active_bots[u] = NoTask
    THEN [S |-> S, raised |-> TRUE]
    ELSE [S |-> [S EXCEPT !.active_bots[u] = NoTask], raised |-> FALSE]

\* list(self.active_bots.keys())
Keys(S) == {u \in Tenants : S.active_bots[u] # NoTask}

\* The orders in which a dictionary can hold a set of keys.
Orders(K) ==
    {q \in [1..Cardinality(K) -> K] : \A i, j \in 1..Cardinality(K) : q[i] = q[j] => i = j}

Min(K) == CHOOSE u \in K : \A v \in K : u <= v

\* start_manager's first loop (bot_manager.py 33-39) over the active configs
\* K: one step, since start_bot does not yield.  ok is FALSE when the model
\* has run out of task ids.
RECURSIVE StartActive(_, _)
StartActive(S, K) ==
    IF K = {} THEN [S |-> S, ok |-> TRUE]
    ELSE LET u == Min(K)
         IN  IF S.active_bots[u] = NoTask \/ done(S, S.active_bots[u])
             THEN IF HasFree(S) THEN StartActive(start_bot(S, u), K \ {u})
                  ELSE [S |-> S, ok |-> FALSE]
             ELSE StartActive(S, K \ {u})

\* stop_manager's loop (bot_manager.py 93-94) over the keys q, up to the first
\* stop_bot that suspends.
RECURSIVE StopAll(_, _)
StopAll(S, q) ==
    IF q = <<>> THEN [S |-> S, cur |-> 0, todo |-> <<>>, wait |-> NoTask]
    ELSE LET r == stop_bot_begin(S, Head(q))
         IN  IF r.wait # NoTask
             THEN [S |-> r.S, cur |-> Head(q), todo |-> Tail(q), wait |-> r.wait]
             ELSE StopAll(r.S, Tail(q))

Idle == [pc |-> "idle", cur |-> 0, todo |-> <<>>, waiting |-> NoTask]

InitManager ==
    /\ is_active \in [Tenants -> BOOLEAN]
    /\ running = FALSE
    /\ active_bots = [u \in Tenants |-> NoTask]
    /\ bot_engines = [u \in Tenants |-> NoTask]
    /\ engine_running = [t \in TaskIds |-> FALSE]
    /\ task_state = [t \in TaskIds |-> "none"]
    /\ task_user = [t \in TaskIds |-> 0]
    /\ must_cancel = [t \in TaskIds |-> FALSE]
    /\ mgr = [Idle EXCEPT !.pc = "init"]
    /\ sm = Idle
    /\ api = [c \in Callers |-> Idle]
    /\ toggles = 0
    /\ start_calls = 0
    /\ stop_calls = 0

\* server.py /bot/start and /bot/stop: the tenant flips is_active.
SetActive(u, b) ==
    /\ toggles < MaxToggles
    /\ is_active[u] # b
    /\ is_active' = [is_active EXCEPT ![u] = b]
    /\ toggles' = toggles + 1
    /\ UNCHANGED <<ovars, xvars>>
    /\ UNCHANGED <<running, botvars, mgr, sm, api, start_calls, stop_calls>>

\* ---- start_manager (bot_manager.py 20-52)
\* Lines 22-28: running = True, then the first db find is awaited.
start_manager_begin ==
    /\ mgr.pc = "init"
    /\ running' = TRUE
    /\ mgr' = [mgr EXCEPT !.pc = "find"]
    /\ UNCHANGED <<ovars, xvars>>
    /\ UNCHANGED <<is_active, botvars, sm, api, toggles, start_calls, stop_calls>>

\* The position after the for loop of line 42 has handled one key.
MgrAdvance(m) ==
    IF m.todo = <<>>
    THEN [Idle EXCEPT !.pc = "sleep"]
    ELSE [pc |-> "stop_check", cur |-> Head(m.todo), todo |-> Tail(m.todo),
          waiting |-> NoTask]

\* Lines 28-43: the find returns the active configs, every one without a
\* live registered task is started, and the first find_one of the second
\* loop is awaited.
start_manager_find ==
    /\ mgr.pc = "find"
    /\ LET r == StartActive(ManagerState, {u \in Tenants : is_active[u]})
       IN  /\ r.ok
           /\ SetManagerState(r.S)
           /\ \E q \in Orders(Keys(r.S)) :
                  mgr' = MgrAdvance([Idle EXCEPT !.todo = q])
    /\ UNCHANGED <<ovars, xvars>>
    /\ UNCHANGED <<is_active, running, sm, api, toggles, start_calls, stop_calls>>

\* Lines 43-46: find_one returns; an inactive (or missing) config calls
\* stop_bot, which suspends on the task or completes at once.
start_manager_check ==
    /\ mgr.pc = "stop_check"
    /\ IF is_active[mgr.cur]
       THEN /\ mgr' = MgrAdvance(mgr)
            /\ UNCHANGED botvars
       ELSE LET r == stop_bot_begin(ManagerState, mgr.cur)
            IN  /\ SetManagerState(r.S)
                /\ mgr' = IF r.wait # NoTask
                          THEN [mgr EXCEPT !.pc = "stop_wait", !.waiting = r.wait]
                          ELSE MgrAdvance(mgr)
    /\ UNCHANGED <<ovars, xvars>>
    /\ UNCHANGED <<is_active, running, sm, api, toggles, start_calls, stop_calls>>

\* Lines 81-86 inside the loop: the awaited task is done; a KeyError of the
\* del is caught at line 50 and ends the pass in the sleep of line 52.
start_manager_stopped ==
    /\ mgr.pc = "stop_wait"
    /\ task_state[mgr.waiting] = "done"
    /\ LET r == stop_bot_end(ManagerState, mgr.cur)
       IN  /\ SetManagerState(r.S)
           /\ mgr' = IF r.raised THEN [Idle EXCEPT !.pc = "sleep"]
                     ELSE MgrAdvance(mgr)
    /\ UNCHANGED <<ovars, xvars>>
    /\ UNCHANGED <<is_active, running, sm, api, toggles, start_calls, stop_calls>>

\* Lines 48/52 and 25: the sleep ends and the loop condition is read.
start_manager_wake ==
    /\ mgr.pc = "sleep"
    /\ mgr' = [Idle EXCEPT !.pc = IF running THEN "find" ELSE "exited"]
    /\ UNCHANGED <<ovars, xvars>>
    /\ UNCHANGED <<is_active, running, botvars, sm, api, toggles, start_calls, stop_calls>>

\* Lines 50-52: a find or find_one that raises is logged and the pass ends.
start_manager_dberror ==
    /\ mgr.pc \in {"find", "stop_check"}
    /\ mgr' = [Idle EXCEPT !.pc = "sleep"]
    /\ UNCHANGED <<ovars, xvars>>
    /\ UNCHANGED <<is_active, running, botvars, sm, api, toggles, start_calls, stop_calls>>

\* ---- stop_manager (bot_manager.py 88-96), called once at shutdown
stop_manager_begin ==
    /\ sm.pc = "idle"
    /\ running' = FALSE
    /\ \E q \in Orders(Keys(ManagerState)) :
           LET r == StopAll(ManagerState, q)
           IN  /\ SetManagerState(r.S)
               /\ sm' = IF r.wait # NoTask
                        THEN [pc |-> "wait", cur |-> r.cur, todo |-> r.todo,
                              waiting |-> r.wait]
                        ELSE [Idle EXCEPT !.pc = "returned"]
    /\ UNCHANGED <<ovars, xvars>>
    /\ UNCHANGED <<is_active, mgr, api, toggles, start_calls, stop_calls>>

\* The awaited task is done: del (KeyError leaves stop_manager), then the
\* remaining keys.
stop_manager_stopped ==
    /\ sm.pc = "wait"
    /\ task_state[sm.waiting] = "done"
    /\ LET e == stop_bot_end(ManagerState, sm.cur)
           r == StopAll(e.S, sm.todo)
       IN  IF e.raised
           THEN /\ sm' = [Idle EXCEPT !.pc = "raised"]
                /\ UNCHANGED botvars
           ELSE /\ SetManagerState(r.S)
                /\ sm' = IF r.wait # NoTask
                         THEN [pc |-> "wait", cur |-> r.cur, todo |-> r.todo,
                               waiting |-> r.wait]
                         ELSE [Idle EXCEPT !.pc = "returned"]
    /\ UNCHANGED <<ovars, xvars>>
    /\ UNCHANGED <<is_active, running, mgr, api, toggles, start_calls, stop_calls>>

\* ---- start_bot and stop_bot called directly (the produced interface)
call_start_bot(u) ==
    /\ start_calls + stop_calls < MaxCalls
    /\ Creates(ManagerState, u) => HasFree(ManagerState)
    /\ SetManagerState(start_bot(ManagerState, u))
    /\ start_calls' = start_calls + 1
    /\ UNCHANGED <<ovars, xvars>>
    /\ UNCHANGED <<is_active, running, mgr, sm, api, toggles, stop_calls>>

call_stop_bot(c, u) ==
    /\ start_calls + stop_calls < MaxCalls
    /\ api[c].pc = "idle"
    /\ \A d \in Callers : d < c => api[d].pc # "idle"
    /\ LET r == stop_bot_begin(ManagerState, u)
       IN  /\ SetManagerState(r.S)
           /\ api' = IF r.wait # NoTask
                     THEN [api EXCEPT ![c] = [pc |-> "wait", cur |-> u,
                                              todo |-> <<>>, waiting |-> r.wait]]
                     ELSE api
    /\ stop_calls' = stop_calls + 1
    /\ UNCHANGED <<ovars, xvars>>
    /\ UNCHANGED <<is_active, running, mgr, sm, toggles, start_calls>>

call_stop_bot_stopped(c) ==
    /\ api[c].pc = "wait"
    /\ task_state[api[c].waiting] = "done"
    /\ SetManagerState(stop_bot_end(ManagerState, api[c].cur).S)
    /\ api' = [api EXCEPT ![c] = Idle]
    /\ UNCHANGED <<ovars, xvars>>
    /\ UNCHANGED <<is_active, running, mgr, sm, toggles, start_calls, stop_calls>>

\* ---- the tenant task: BotEngine.start (bot_engine.py 33-44)
\* A cancellation is delivered when the task next runs: CancelledError is
\* no Exception, so neither line 42 nor line 69 catches it.
task_cancelled(t) ==
    /\ Live(t)
    /\ must_cancel[t]
    /\ task_state' = [task_state EXCEPT ![t] = "done"]
    /\ must_cancel' = [must_cancel EXCEPT ![t] = FALSE]
    /\ task_user' = [task_user EXCEPT ![t] = 0]
    /\ UNCHANGED <<ovars, xvars>>
    /\ UNCHANGED <<is_active, running, active_bots, bot_engines, engine_running,
                   mgr, sm, api, toggles, start_calls, stop_calls>>

\* Lines 35-40: the task's first run sets running and enters the first tick,
\* which suspends in trading_cycle's find_one (line 54).
task_first_run(t) ==
    /\ task_state[t] = "created"
    /\ ~must_cancel[t]
    /\ engine_running' = [engine_running EXCEPT ![t] = TRUE]
    /\ task_state' = [task_state EXCEPT ![t] = "tick"]
    /\ UNCHANGED <<ovars, xvars>>
    /\ UNCHANGED <<is_active, running, active_bots, bot_engines, task_user,
                   must_cancel, mgr, sm, api, toggles, start_calls, stop_calls>>

\* Lines 40-44: the tick ends (returned, or raised and logged) and the task
\* sleeps 60 s.
task_tick_end(t) ==
    /\ task_state[t] = "tick"
    /\ ~must_cancel[t]
    /\ task_state' = [task_state EXCEPT ![t] = "sleep"]
    /\ UNCHANGED <<ovars, xvars>>
    /\ UNCHANGED <<is_active, running, active_bots, bot_engines, engine_running,
                   task_user, must_cancel, mgr, sm, api, toggles, start_calls, stop_calls>>

\* Line 38: after the sleep the loop condition is read; the next tick starts
\* or the coroutine returns.
task_wake(t) ==
    /\ task_state[t] = "sleep"
    /\ ~must_cancel[t]
    /\ task_state' = [task_state EXCEPT
                        ![t] = IF engine_running[t] THEN "tick" ELSE "done"]
    /\ task_user' = [task_user EXCEPT ![t] = IF engine_running[t] THEN @ ELSE 0]
    /\ UNCHANGED <<ovars, xvars>>
    /\ UNCHANGED <<is_active, running, active_bots, bot_engines, engine_running,
                   must_cancel, mgr, sm, api, toggles, start_calls, stop_calls>>


\* --------------------------------------------------- AdvancedOrderManager
\* Parameters a caller can pass to place_*_order; nothing in the code limits
\* them.  HOLD stands for any side that is neither BUY nor SELL, 0 for any
\* non-positive number.
Sides == {"BUY", "SELL", "HOLD"}
Quantities == {0, 1}
Levels == {0, 90, 110}

\* The prices a check is called with; 0 is current_prices.get(symbol, 0) of a
\* symbol that has no price.
Prices == {0, 85, 90, 95, 110, 111}

NoOrder == [type |-> "NONE"]

\* The dictionaries built at lines 20-31, 49-60 and 76-86.  A key the code
\* does not set is "" or 0 here.
LimitOrder(side, quantity, limit_price) ==
    [type |-> "LIMIT", side |-> side, quantity |-> quantity,
     limit_price |-> limit_price, stop_price |-> 0,
     take_profit_price |-> 0, stop_loss_price |-> 0,
     status |-> "PENDING", executed_reason |-> ""]

StopLimitOrder(side, quantity, stop_price, limit_price) ==
    [type |-> "STOP_LIMIT", side |-> side, quantity |-> quantity,
     limit_price |-> limit_price, stop_price |-> stop_price,
     take_profit_price |-> 0, stop_loss_price |-> 0,
     status |-> "PENDING", executed_reason |-> ""]

OcoOrder(quantity, take_profit_price, stop_loss_price) ==
    [type |-> "OCO", side |-> "", quantity |-> quantity,
     limit_price |-> 0, stop_price |-> 0,
     take_profit_price |-> take_profit_price,
     stop_loss_price |-> stop_loss_price,
     status |-> "PENDING", executed_reason |-> ""]

\* Lines 110-138 for one order at price p: whether it is sent to execution,
\* and the order with the keys the OCO branch sets.
LimitTriggered(order, p) ==
    \/ order.side = "BUY" /\ p <= order.limit_price
    \/ order.side = "SELL" /\ p >= order.limit_price

StopOnlyTriggered(order, p) ==
    \/ order.side = "BUY" /\ p >= order.stop_price
    \/ order.side = "SELL" /\ p <= order.stop_price

StopLimitTriggered(order, p) ==
    \/ order.side = "BUY" /\ p >= order.stop_price /\ p <= order.limit_price
    \/ order.side = "SELL" /\ p <= order.stop_price /\ p >= order.limit_price

OcoLegStrict(order, p) ==
    IF p > order.take_profit_price THEN "Take Profit"
    ELSE IF p < order.stop_loss_price THEN "Stop Loss"
    ELSE ""

OcoLeg(order, p) ==
    IF p >= order.take_profit_price THEN "Take Profit"
    ELSE IF p <= order.stop_loss_price THEN "Stop Loss"
    ELSE ""

Evaluate(order, p) ==
    IF order.type = "LIMIT"
    THEN [order |-> order, should_execute |-> LimitTriggered(order, p)]
    ELSE IF order.type = "STOP_LIMIT"
    THEN [order |-> order, should_execute |-> StopLimitTriggered(order, p)]
    ELSE IF order.type = "OCO" /\ OcoLeg(order, p) # ""
    THEN [order |-> [order EXCEPT !.side = "SELL",
                                  !.executed_reason = OcoLeg(order, p)],
          should_execute |-> TRUE]
    ELSE [order |-> order, should_execute |-> FALSE]

\* What one check call did to an order: the log entry of an evaluation.
Entry(o, order, sent, ok) ==
    [id |-> o, sent |-> sent, ok |-> ok,
     side |-> IF sent THEN order.side ELSE "",
     reason |-> IF sent THEN order.executed_reason ELSE ""]

\* The in-memory state the loop of check_pending_orders works on.
OrderState == [orders |-> orders, fills |-> fills, log |-> chk.log]

\* The loop of lines 103-162 over the snapshot q at price p, up to the first
\* await that yields: place_market_order (trading_service.py 28-59) has no
\* await, so a failed execution goes on to the next order in the same step,
\* and a successful one suspends in update_one (line 154).  filled are the
\* orders the trading service would fill.
RECURSIVE CheckLoop(_, _, _, _)
CheckLoop(S, q, p, filled) ==
    IF q = <<>> THEN [S |-> S, cur |-> 0, todo |-> <<>>]
    ELSE LET o == Head(q)
             e == Evaluate(S.orders[o], p)
         IN  IF p = 0 THEN CheckLoop(S, Tail(q), p, filled)
             ELSE IF ~e.should_execute
             THEN CheckLoop([S EXCEPT !.orders[o] = e.order,
                                      !.log = Append(@, Entry(o, e.order, FALSE, FALSE))],
                            Tail(q), p, filled)
             ELSE IF o \notin filled
             THEN CheckLoop([S EXCEPT !.orders[o] = e.order,
                                      !.log = Append(@, Entry(o, e.order, TRUE, FALSE))],
                            Tail(q), p, filled)
             ELSE [S |-> [S EXCEPT !.orders[o] = [e.order EXCEPT !.status = "EXECUTED"],
                                   !.fills[o] = @ + 1,
                                   !.log = Append(@, Entry(o, e.order, TRUE, TRUE))],
                   cur |-> o, todo |-> Tail(q)]

PlcIdle == [pc |-> "idle", cur |-> 0, written |-> FALSE]
ChkIdle == [pc |-> "idle", cur |-> 0, todo |-> <<>>, price |-> 0,
            written |-> FALSE, log |-> <<>>]
CnlIdle == [pc |-> "idle", cur |-> 0, written |-> FALSE, result |-> ""]

InitOrderManager ==
    /\ orders = [o \in OrderIds |-> NoOrder]
    /\ norders = 0
    /\ pending_orders = {}
    /\ db_status = [o \in OrderIds |-> "NONE"]
    /\ fills = [o \in OrderIds |-> 0]
    /\ plc = PlcIdle
    /\ chk = ChkIdle
    /\ cnl = CnlIdle

\* place_limit_order up to the await of insert_one (lines 20-34); cap bounds
\* the orders of a run, and the next unused id stands for uuid4().
place_limit_order(side, quantity, limit_price, cap) ==
    /\ plc.pc = "idle"
    /\ norders < cap
    /\ norders' = norders + 1
    /\ orders' = [orders EXCEPT ![norders + 1] = LimitOrder(side, quantity, limit_price)]
    /\ plc' = [pc |-> "insert", cur |-> norders + 1, written |-> FALSE]
    /\ UNCHANGED <<pending_orders, db_status, fills, chk, cnl>>
    /\ UNCHANGED <<mvars, xvars>>

\* place_stop_limit_order up to the await of insert_one (lines 49-62).
place_stop_limit_order(side, quantity, stop_price, limit_price, cap) ==
    /\ plc.pc = "idle"
    /\ norders < cap
    /\ norders' = norders + 1
    /\ orders' = [orders EXCEPT ![norders + 1] =
                      StopLimitOrder(side, quantity, stop_price, limit_price)]
    /\ plc' = [pc |-> "insert", cur |-> norders + 1, written |-> FALSE]
    /\ UNCHANGED <<pending_orders, db_status, fills, chk, cnl>>
    /\ UNCHANGED <<mvars, xvars>>

\* place_oco_order up to the await of insert_one (lines 76-88).
place_oco_order(quantity, take_profit_price, stop_loss_price, cap) ==
    /\ plc.pc = "idle"
    /\ norders < cap
    /\ norders' = norders + 1
    /\ orders' = [orders EXCEPT ![norders + 1] =
                      OcoOrder(quantity, take_profit_price, stop_loss_price)]
    /\ plc' = [pc |-> "insert", cur |-> norders + 1, written |-> FALSE]
    /\ UNCHANGED <<pending_orders, db_status, fills, chk, cnl>>
    /\ UNCHANGED <<mvars, xvars>>

\* The insert_one of lines 34, 62, 88 reaches the database.
place_written ==
    /\ plc.pc = "insert"
    /\ ~plc.written
    /\ db_status' = [db_status EXCEPT ![plc.cur] = "PENDING"]
    /\ plc' = [plc EXCEPT !.written = TRUE]
    /\ UNCHANGED <<orders, norders, pending_orders, fills, chk, cnl>>
    /\ UNCHANGED <<mvars, xvars>>

\* Lines 35-43, 63-71, 89-97: the order enters the index and the call returns.
place_resume ==
    /\ plc.pc = "insert"
    /\ plc.written
    /\ pending_orders' = pending_orders \cup {plc.cur}
    /\ plc' = PlcIdle
    /\ UNCHANGED <<orders, norders, db_status, fills, chk, cnl>>
    /\ UNCHANGED <<mvars, xvars>>

\* insert_one raises: nothing is stored and the dictionary is dropped.
place_insert_failed ==
    /\ plc.pc = "insert"
    /\ ~plc.written
    /\ orders' = [orders EXCEPT ![plc.cur] = NoOrder]
    /\ plc' = PlcIdle
    /\ UNCHANGED <<norders, pending_orders, db_status, fills, chk, cnl>>
    /\ UNCHANGED <<mvars, xvars>>

\* check_pending_orders(current_prices) from its call to its first yield
\* (lines 101-154) or to its return.
check_begin(p) ==
    /\ chk.pc = "idle"
    /\ \E q \in Orders(pending_orders), filled \in SUBSET pending_orders :
           LET r == CheckLoop([OrderState EXCEPT !.log = <<>>], q, p, filled)
           IN  /\ \A o \in filled : fills[o] < MaxFills
               /\ orders' = r.S.orders
               /\ fills' = r.S.fills
               /\ chk' = [pc |-> IF r.cur = 0 THEN "idle" ELSE "update",
                          cur |-> r.cur, todo |-> r.todo, price |-> p,
                          written |-> FALSE, log |-> r.S.log]
    /\ UNCHANGED <<norders, pending_orders, db_status, plc, cnl>>
    /\ UNCHANGED <<mvars, xvars>>

\* The update_one of line 154 reaches the database; it matches on the id
\* alone.
check_written ==
    /\ chk.pc = "update"
    /\ ~chk.written
    /\ db_status' = [db_status EXCEPT ![chk.cur] = "EXECUTED"]
    /\ chk' = [chk EXCEPT !.written = TRUE]
    /\ UNCHANGED <<orders, norders, pending_orders, fills, plc, cnl>>
    /\ UNCHANGED <<mvars, xvars>>

\* Lines 159-164: the check resumes; del raises KeyError when the id has left
\* the index, which ends the call; otherwise the loop goes on.
check_resume ==
    /\ chk.pc = "update"
    /\ chk.written
    /\ IF chk.cur \notin pending_orders
       THEN /\ chk' = [chk EXCEPT !.pc = "idle", !.cur = 0, !.todo = <<>>,
                                  !.written = FALSE]
            /\ UNCHANGED <<orders, fills, pending_orders>>
       ELSE \E filled \in SUBSET OrderIds :
                LET r == CheckLoop(OrderState, chk.todo, chk.price, filled)
                IN  /\ \A o \in filled : fills[o] < MaxFills
                    /\ orders' = r.S.orders
                    /\ fills' = r.S.fills
                    /\ pending_orders' = pending_orders \ {chk.cur}
                    /\ chk' = [chk EXCEPT !.pc = IF r.cur = 0 THEN "idle" ELSE "update",
                                          !.cur = r.cur, !.todo = r.todo,
                                          !.written = FALSE, !.log = r.S.log]
    /\ UNCHANGED <<norders, db_status, plc, cnl>>
    /\ UNCHANGED <<mvars, xvars>>

\* The update_one of line 154 raises: the exception leaves the call.
check_update_failed ==
    /\ chk.pc = "update"
    /\ ~chk.written
    /\ chk' = [chk EXCEPT !.pc = "idle", !.cur = 0, !.todo = <<>>]
    /\ UNCHANGED <<orders, norders, pending_orders, db_status, fills, plc, cnl>>
    /\ UNCHANGED <<mvars, xvars>>

\* cancel_order(order_id) up to the await of update_one (lines 168-171), or
\* to the return of line 178.  The id of an order whose placement has not
\* returned (lines 21, 39-43) is known to no caller.
cancel_begin(o) ==
    /\ cnl.pc = "idle"
    /\ o # plc.cur
    /\ IF o \in pending_orders
       THEN /\ pending_orders' = pending_orders \ {o}
            /\ cnl' = [pc |-> "update", cur |-> o, written |-> FALSE, result |-> ""]
       ELSE /\ cnl' = [CnlIdle EXCEPT !.cur = o, !.result = "Order not found"]
            /\ UNCHANGED pending_orders
    /\ UNCHANGED <<orders, norders, db_status, fills, plc, chk>>
    /\ UNCHANGED <<mvars, xvars>>

\* The update_one of line 171 reaches the database.
cancel_written ==
    /\ cnl.pc = "update"
    /\ ~cnl.written
    /\ db_status' = [db_status EXCEPT ![cnl.cur] = "CANCELLED"]
    /\ cnl' = [cnl EXCEPT !.written = TRUE]
    /\ UNCHANGED <<orders, norders, pending_orders, fills, plc, chk>>
    /\ UNCHANGED <<mvars, xvars>>

\* Line 176.
cancel_resume ==
    /\ cnl.pc = "update"
    /\ cnl.written
    /\ cnl' = [cnl EXCEPT !.pc = "idle", !.written = FALSE,
                          !.result = "Order cancelled"]
    /\ UNCHANGED <<orders, norders, pending_orders, db_status, fills, plc, chk>>
    /\ UNCHANGED <<mvars, xvars>>

\* The update_one of line 171 raises.
cancel_update_failed ==
    /\ cnl.pc = "update"
    /\ ~cnl.written
    /\ cnl' = [cnl EXCEPT !.pc = "idle", !.result = "raised"]
    /\ UNCHANGED <<orders, norders, pending_orders, db_status, fills, plc, chk>>
    /\ UNCHANGED <<mvars, xvars>>

\* ------------------------------------------------------------- RiskManager
\* Money is in whole dollars, fractions of the configuration in percent or in
\* tenths of a percent, so that the products below are the code's floats
\* times a power of ten.
capital_floor_pct == 97
max_daily_loss_pm == 15

\* check_capital_floor (lines 12-27): allow_trading.
check_capital_floor(current_equity, max_equity) ==
    ~(current_equity * 100 < max_equity * capital_floor_pct)

\* check_daily_loss (lines 29-42): allow_trading.
check_daily_loss(daily_pnl, starting_equity) ==
    ~(daily_pnl * 1000 < -(starting_equity * max_daily_loss_pm))

RejectionReasonLossFirst(floor_ok, loss_ok, confidence_ok, strong_signal) ==
    IF ~loss_ok THEN "Daily loss limit reached"
    ELSE IF ~floor_ok THEN "Capital floor breach - trading halted"
    ELSE IF ~confidence_ok THEN "Signal confidence too low"
    ELSE IF ~strong_signal THEN "No strong buy signal"
    ELSE "All checks passed"

\* _get_rejection_reason (lines 106-115).
get_rejection_reason(floor_ok, loss_ok, confidence_ok, strong_signal) ==
    IF ~floor_ok THEN "Capital floor breach - trading halted"
    ELSE IF ~loss_ok THEN "Daily loss limit reached"
    ELSE IF ~confidence_ok THEN "Signal confidence too low"
    ELSE IF ~strong_signal THEN "No strong buy signal"
    ELSE "All checks passed"

\* validate_trade (lines 67-104); signal is the analysis dictionary with its
\* confidence and buy_recommendation keys, risk_metrics the snapshot.
validate_trade(signal, risk_metrics) ==
    LET floor_ok == check_capital_floor(risk_metrics.total_equity, risk_metrics.max_equity)
        loss_ok == check_daily_loss(risk_metrics.daily_pnl, risk_metrics.max_equity)
        confidence_ok == signal.confidence >= 60
        strong_signal == signal.buy_recommendation
    IN  [approved |-> floor_ok /\ loss_ok /\ confidence_ok /\ strong_signal,
         floor_check |-> floor_ok,
         loss_check |-> loss_ok,
         confidence_check |-> confidence_ok,
         signal_check |-> strong_signal,
         reason |-> get_rejection_reason(floor_ok, loss_ok, confidence_ok, strong_signal)]

\* The snapshots and signals validate_trade is applied to.
Equities == {9600, 9700, 10000}
MaxEquities == {0, 10000}
DailyPnls == {-151, -150, 0}
Confidences == {59, 60, 95}

NoCall == [fn |-> "none"]

InitCalls == called = NoCall

\* A call of RiskManager.validate_trade, the one call of a behaviour.
call_validate_trade(signal, risk_metrics) ==
    /\ called = NoCall
    /\ called' = [fn |-> "validate_trade", signal |-> signal,
                  risk_metrics |-> risk_metrics,
                  result |-> validate_trade(signal, risk_metrics)]
    /\ UNCHANGED <<mvars, ovars, evars>>

\* The analysis dictionaries and the snapshots made of them.
TradeSignals == [confidence : Confidences, buy_recommendation : BOOLEAN]

RiskSnapshots ==
    [total_equity : Equities, max_equity : MaxEquities, daily_pnl : DailyPnls]

NextRisk ==
    \E signal \in TradeSignals, risk_metrics \in RiskSnapshots :
        call_validate_trade(signal, risk_metrics)

\* ------------------------------------------------- BotEngine: exit rules
\* Lines 428-482 of check_sell_signal: the decision and its reason from the
\* position's gain in percent, its fall from the high water mark in percent,
\* the technical signal, the indicators, the AI analysis and the hours the
\* position has been held.  A reason is the fixed part of the code's text.
exit_rules(x) ==
    LET chain ==
            IF x.pnl_percent > 3 /\ x.drawdown_from_high >= 2
            THEN [should_sell |-> TRUE, sell_reason |-> "Trailing stop triggered"]
            ELSE IF x.pnl_percent >= 5
            THEN [should_sell |-> TRUE, sell_reason |-> "Profit target reached (+5%)"]
            ELSE IF x.pnl_percent <= -3
            THEN [should_sell |-> TRUE, sell_reason |-> "Stop loss triggered (-3%)"]
            ELSE IF x.tech_signal = "SELL" /\ x.tech_confidence > 70
            THEN [should_sell |-> TRUE, sell_reason |-> "Strong technical sell signal"]
            ELSE IF x.rsi > 70 /\ x.pnl_percent > 2
            THEN [should_sell |-> TRUE, sell_reason |-> "RSI overbought"]
            ELSE IF x.regime \in {"strong_downtrend", "downtrend"} /\ x.pnl_percent < 3
            THEN [should_sell |-> TRUE, sell_reason |-> "Market regime changed"]
            ELSE IF /\ x.signal = "SELL" \/ ~x.buy_recommendation
                    /\ x.tech_signal = "SELL"
                    /\ x.combined_confidence > 60
            THEN [should_sell |-> TRUE, sell_reason |-> "Combined AI + Technical sell signal"]
            ELSE [should_sell |-> FALSE, sell_reason |-> ""]
    IN  IF x.hours_held > 24 /\ x.pnl_percent < 2
        THEN [should_sell |-> TRUE,
              sell_reason |-> "Time-based exit (24h hold with <2% gain)"]
        ELSE chain

\* The situations the exit rules are applied to.
PnlPercents == {-3, 1, 2, 3, 4, 5}
Drawdowns == {0, 2}
Signals == {"BUY", "SELL", "HOLD"}
TechConfidences == {70, 71}
Rsis == {70, 71}
Regimes == {"downtrend", "neutral"}
CombinedConfidences == {60, 61}
HoursHeld == {24, 25}

Situations ==
    [pnl_percent : PnlPercents, drawdown_from_high : Drawdowns,
     tech_signal : Signals, tech_confidence : TechConfidences,
     rsi : Rsis, regime : Regimes, signal : {"SELL", "HOLD"},
     buy_recommendation : BOOLEAN, combined_confidence : CombinedConfidences,
     hours_held : HoursHeld]

\* The exit rules of check_sell_signal applied to a situation, the one call
\* of a behaviour.
call_exit_rules(x) ==
    /\ called = NoCall
    /\ called' = [fn |-> "exit_rules", x |-> x, result |-> exit_rules(x)]
    /\ UNCHANGED <<mvars, ovars, evars>>

NextExit == \E x \in Situations : call_exit_rules(x)

\* ------------------------------------------- BotEngine: entry decision
\* Nearest integer of n / d, for n >= 0 and d > 0: round(x, 2) of an amount
\* kept in hundredths.
Round(n, d) == (n + d \div 2) \div d

RECURSIVE Sum(_)
Sum(q) == IF q = <<>> THEN 0 ELSE Head(q) + Sum(Tail(q))

\* calculate_portfolio_heat (advanced_risk_manager.py 34-86): heat_percent in
\* hundredths of a percent, from the quantities (dollars invested) of the
\* positions.
calculate_portfolio_heat(quantities, total_equity) ==
    IF quantities = <<>> \/ total_equity <= 0 THEN 0
    ELSE Round(Sum(quantities) * 3 * 100, total_equity)

\* calculate_optimal_position_size (advanced_risk_manager.py 151-173) in
\* cents, at the volatility 0.10 the engine passes; confidence is in
\* thousandths of a percent and heat in hundredths of a percent, so that
\* signal_strength = confidence / 100000, kelly_fraction = kelly4000 / 4000
\* and heat_adjustment = heat_available / 1500.
calculate_optimal_position_size(confidence, total_equity, heat) ==
    LET kelly4000 == IF confidence < 80 THEN confidence ELSE 80
        heat_available == 1500 - heat
        exact_d == 40 * 1500
        capped == IF kelly4000 * heat_available < 5 * exact_d
                  THEN Round(total_equity * kelly4000 * heat_available, exact_d)
                  ELSE total_equity * 5
    IN  IF heat_available <= 0 THEN 0
        ELSE IF total_equity <= 0 \/ capped < 1000 THEN 1000 ELSE capped

\* Lines 254-270 of analyze_and_trade: combined_confidence in thousandths of
\* a percent.
combined_confidence(x) ==
    LET weighted == 4 * x.ai_confidence + 3 * x.tech_confidence + 3 * x.mtf_confidence
    IN  IF x.tech_signal = x.mtf_action /\ x.mtf_action = x.ai_signal
        THEN IF weighted * 115 < 95000 THEN weighted * 115 ELSE 95000
        ELSE weighted * 75

\* Lines 300-305 of analyze_and_trade; the AI's buy_recommendation is
\* recommendation == 'BUY' (ai_analysis_service.py 86-95).
buy_recommendation(x) ==
    x.tech_signal = "BUY" /\ x.mtf_action = "BUY" /\ x.ai_signal = "BUY"

NoBuy(message) == [side |-> "NONE", quantity |-> 0, message |-> message]

check_buy_signal_ungated(x) ==
    LET heat == calculate_portfolio_heat(x.quantities, x.risk_metrics.total_equity)
        position_size == calculate_optimal_position_size(
                             combined_confidence(x), x.risk_metrics.total_equity, heat)
    IN  IF position_size < 1000 THEN NoBuy("Position size too small")
        ELSE [side |-> "BUY", quantity |-> position_size, message |-> "Trade executed"]

\* check_buy_signal (lines 308-405): the market order it submits, if any, and
\* what it logs.  The statements that place the order (lines 356-403) follow
\* the return of line 354 inside the same if, and the else of line 404
\* belongs to 'if position_size < 10'.
check_buy_signal(x) ==
    LET validation == validate_trade(
                          [confidence |-> combined_confidence(x) \div 1000,
                           buy_recommendation |-> buy_recommendation(x)],
                          x.risk_metrics)
        heat == calculate_portfolio_heat(x.quantities, x.risk_metrics.total_equity)
        position_size == calculate_optimal_position_size(
                             combined_confidence(x), x.risk_metrics.total_equity, heat)
    IN  IF ~validation.approved THEN NoBuy(validation.reason)
        ELSE IF ~buy_recommendation(x) THEN NoBuy("No buy recommendation")
        ELSE IF heat >= 1500 THEN NoBuy("Portfolio heat too high")
        ELSE IF ~x.correlation_allowed THEN NoBuy("High correlation")
        ELSE IF position_size < 1000 THEN NoBuy("Position size too small")
        ELSE NoBuy("Trade not approved")

\* Lines 294-306 of analyze_and_trade for the entry: with a position in the
\* symbol the exit is checked instead.
analyze_entry(x) ==
    IF x.existing_position THEN NoBuy("has position") ELSE check_buy_signal(x)

\* The analyses, snapshots and portfolios the entry decision is applied to.
EntryConfidences == {50, 90}
AiSignals == {"BUY", "HOLD"}
Portfolios == {<<>>, <<1000>>, <<30000, 20000>>}

Analyses ==
    [tech_signal : Signals, tech_confidence : EntryConfidences,
     mtf_action : Signals, mtf_confidence : EntryConfidences,
     ai_signal : AiSignals, ai_confidence : EntryConfidences,
     risk_metrics : [total_equity : {9600, 10000}, max_equity : {10000},
                     daily_pnl : {-151, 0}],
     quantities : Portfolios, correlation_allowed : BOOLEAN,
     existing_position : BOOLEAN]

\* The entry decision of analyze_and_trade applied to an analysis, the one
\* call of a behaviour.
call_analyze_entry(x) ==
    /\ called = NoCall
    /\ called' = [fn |-> "analyze_entry", x |-> x, result |-> analyze_entry(x)]
    /\ UNCHANGED <<mvars, ovars, evars>>

NextEntry == \E x \in Analyses : call_analyze_entry(x)

\* ------------------------------------------------- BotEngine: the cycle
\* The engine loops that run for one tenant (BotManager can leave two loops
\* running for a tenant), the ticks they make, the symbols of the
\* configuration, the prices the market data service reports and the
\* capital-floor fractions (in percent) a tenant may configure.
NumEngines == 2
MaxTicks == 2
Engines == 1 .. NumEngines
Symbols == <<"BTC-USD", "ETH-USD">>
MarketPrices == {97, 103, 105}
CapitalFloors == {95, 97}

\* A position document as lines 370-381 create it: quantity is the amount
\* invested in dollars; high_water_mark is read with the default avg_price.
Position(symbol, quantity, avg_price) ==
    [symbol |-> symbol, quantity |-> quantity, avg_price |-> avg_price,
     pnl |-> 0, high_water_mark |-> avg_price]

NoPosition == [symbol |-> "none"]

\* The snapshot update_risk_metrics builds (lines 124-167) from the cash and
\* max_equity of the previous snapshot, the positions and the day's first
\* equity.  equity_floor is in hundredths of a dollar; tick is the cycle
\* that appended the snapshot (0: before the loops started).
new_metrics(tick, cash_balance, positions_value, total_pnl, prev_max, daily_start) ==
    LET total_equity == cash_balance + positions_value + total_pnl
        max_equity == IF total_equity > prev_max THEN total_equity ELSE prev_max
    IN  [tick |-> tick,
         total_equity |-> total_equity,
         max_equity |-> max_equity,
         equity_floor |-> max_equity * 97,
         daily_pnl |-> total_equity - daily_start,
         positions_value |-> positions_value,
         cash_balance |-> cash_balance]

\* find_one(..., sort=[("timestamp", -1)]) on db.risk_metrics, with the
\* defaults of lines 118-122 and 210-217 when there is no snapshot.
DefaultMetrics ==
    [tick |-> 0, total_equity |-> 10000, max_equity |-> 10000,
     equity_floor |-> 970000, daily_pnl |-> 0, positions_value |-> 0,
     cash_balance |-> 10000]

LatestMetrics ==
    IF db_risk_metrics = <<>> THEN DefaultMetrics
    ELSE db_risk_metrics[Len(db_risk_metrics)]

\* The documents of db.positions when the loops start: none, or a position
\* of $1000 bought at 100 out of the $10000 of cash, with the snapshot that
\* goes with it.
InitialPortfolios == {<<>>, <<Position("BTC-USD", 1000, 100)>>}

RECURSIVE SumField(_, _)
SumField(docs, field) ==
    IF docs = <<>> THEN 0 ELSE Head(docs)[field] + SumField(Tail(docs), field)

\* Index of the first document of a symbol, 0 if there is none: the document
\* find_one, update_one and delete_one act on.
FirstOf(docs, symbol) ==
    LET matches == {i \in 1 .. Len(docs) : docs[i].symbol = symbol}
    IN  IF matches = {} THEN 0
        ELSE CHOOSE i \in matches : \A j \in matches : i <= j

find_one(docs, symbol) ==
    IF FirstOf(docs, symbol) = 0 THEN NoPosition ELSE docs[FirstOf(docs, symbol)]

update_one(docs, symbol, field, value) ==
    IF FirstOf(docs, symbol) = 0 THEN docs
    ELSE [docs EXCEPT ![FirstOf(docs, symbol)][field] = value]

delete_one(docs, symbol) ==
    IF FirstOf(docs, symbol) = 0 THEN docs
    ELSE [i \in 1 .. Len(docs) - 1 |->
              IF i < FirstOf(docs, symbol) THEN docs[i] ELSE docs[i + 1]]

\* The local variables of a loop between two cycles (asyncio.sleep, line 42).
Sleeping ==
    [pc |-> "sleep", tick |-> 0, sym |-> 0, todo |-> <<>>,
     positions_value |-> 0, total_pnl |-> 0, cash_balance |-> 0,
     max_equity |-> 0, daily_start_equity |-> 0, price |-> 0,
     existing |-> NoPosition, risk |-> DefaultMetrics, quantities |-> <<>>,
     order |-> "none", final_value |-> 0, final_pnl |-> 0, new_cash |-> 0,
     market_failed |-> FALSE, error |-> "none"]

InitEngine(capital_floors, portfolios) ==
    /\ bot_config \in [is_active : {TRUE}, capital_floor : capital_floors]
    /\ positions \in portfolios
    /\ db_risk_metrics =
           IF positions = <<>> THEN <<>>
           ELSE <<new_metrics(0, 10000 - SumField(positions, "quantity"),
                              SumField(positions, "quantity"), 0, 10000, 10000)>>
    /\ trades = <<>>
    /\ market_orders = <<>>
    /\ market_analysis = <<>>
    /\ ticks = 0
    /\ eng = [e \in Engines |-> Sleeping]

\* The analysis of a symbol is over (return of analyze_and_trade, or its
\* exception caught at line 69): the next symbol, or the sleep of line 42.
NextSymbol(l) ==
    IF l.sym < Len(Symbols)
    THEN [Sleeping EXCEPT !.pc = "analyze", !.tick = l.tick, !.sym = l.sym + 1,
                          !.order = l.order]
    ELSE [Sleeping EXCEPT !.order = l.order]

\* trading_cycle without lines 55-56: the cycle runs whatever is_active is.
trading_cycle_unchecked(e) ==
    /\ eng[e].pc = "sleep"
    /\ ticks < MaxTicks
    /\ ticks' = ticks + 1
    /\ eng' = [eng EXCEPT ![e] =
                  [Sleeping EXCEPT !.pc = "update_positions", !.tick = ticks + 1]]
    /\ UNCHANGED <<bot_config, positions, db_risk_metrics, trades, market_orders,
                   market_analysis>>
    /\ UNCHANGED <<mvars, ovars, fvars>>

\* trading_cycle, lines 53-56: the configuration is read; an inactive tenant
\* ends the cycle.
trading_cycle(e) ==
    /\ eng[e].pc = "sleep"
    /\ ticks < MaxTicks
    /\ ticks' = ticks + 1
    /\ eng' = [eng EXCEPT ![e] =
                  IF bot_config.is_active
                  THEN [Sleeping EXCEPT !.pc = "update_positions", !.tick = ticks + 1]
                  ELSE Sleeping]
    /\ UNCHANGED <<bot_config, positions, db_risk_metrics, trades, market_orders, market_analysis>>
    /\ UNCHANGED <<mvars, ovars, fvars>>

\* update_positions, line 74: the positions are read.
update_positions(e) ==
    /\ eng[e].pc = "update_positions"
    /\ eng' = [eng EXCEPT ![e].todo = positions,
                          ![e].pc = IF positions = <<>> THEN "risk_positions"
                                    ELSE "update_position"]
    /\ UNCHANGED <<bot_config, positions, db_risk_metrics, trades, market_orders, ticks, market_analysis>>
    /\ UNCHANGED <<mvars, ovars, fvars>>

\* update_positions, lines 76-98: the price of the next position read is
\* fetched and its P&L stored in the first document of its symbol.
update_position(e, current_price) ==
    /\ eng[e].pc = "update_position"
    /\ LET position == Head(eng[e].todo)
           position_value == (position.quantity * current_price) \div position.avg_price
           pnl == position_value - position.quantity
       IN  /\ positions' = update_one(positions, position.symbol, "pnl", pnl)
           /\ eng' = [eng EXCEPT ![e].todo = Tail(eng[e].todo),
                                 ![e].pc = IF Tail(eng[e].todo) = <<>>
                                           THEN "risk_positions"
                                           ELSE "update_position"]
    /\ UNCHANGED <<bot_config, db_risk_metrics, trades, market_orders, ticks, market_analysis>>
    /\ UNCHANGED <<mvars, ovars, fvars>>

\* update_risk_metrics, lines 105-109.
risk_positions(e) ==
    /\ eng[e].pc = "risk_positions"
    /\ eng' = [eng EXCEPT ![e].positions_value = SumField(positions, "quantity"),
                          ![e].total_pnl = SumField(positions, "pnl"),
                          ![e].pc = "risk_prev"]
    /\ UNCHANGED <<bot_config, positions, db_risk_metrics, trades, market_orders, ticks, market_analysis>>
    /\ UNCHANGED <<mvars, ovars, fvars>>

\* update_risk_metrics, lines 112-136: the latest snapshot is read.
risk_prev(e) ==
    /\ eng[e].pc = "risk_prev"
    /\ eng' = [eng EXCEPT ![e].cash_balance = LatestMetrics.cash_balance,
                          ![e].max_equity = LatestMetrics.max_equity,
                          ![e].pc = "risk_daily"]
    /\ UNCHANGED <<bot_config, positions, db_risk_metrics, trades, market_orders, ticks, market_analysis>>
    /\ UNCHANGED <<mvars, ovars, fvars>>

\* update_risk_metrics, lines 139-156: the day's first snapshot is read (the
\* snapshots in the collection are the day's); without one the day starts at
\* starting_equity, the max_equity read before.
risk_daily(e) ==
    /\ eng[e].pc = "risk_daily"
    /\ eng' = [eng EXCEPT ![e].daily_start_equity =
                              IF db_risk_metrics = <<>> THEN eng[e].max_equity
                              ELSE db_risk_metrics[1].total_equity,
                          ![e].pc = "risk_insert"]
    /\ UNCHANGED <<bot_config, positions, db_risk_metrics, trades, market_orders, ticks, market_analysis>>
    /\ UNCHANGED <<mvars, ovars, fvars>>

\* update_risk_metrics, lines 158-169: the snapshot is appended; the loop
\* over the symbols begins (lines 64-70).
risk_insert(e) ==
    /\ eng[e].pc = "risk_insert"
    /\ db_risk_metrics' = Append(db_risk_metrics,
                              new_metrics(eng[e].tick, eng[e].cash_balance,
                                          eng[e].positions_value, eng[e].total_pnl,
                                          eng[e].max_equity, eng[e].daily_start_equity))
    /\ eng' = [eng EXCEPT ![e] = [Sleeping EXCEPT !.pc = "analyze",
                                                  !.tick = eng[e].tick, !.sym = 1]]
    /\ UNCHANGED <<bot_config, positions, trades, market_orders, ticks, market_analysis>>
    /\ UNCHANGED <<mvars, ovars, fvars>>

\* What the exchange answers to a request of the market data services: the
\* data (status 200), another status, or no answer (the request raises).
MarketResponses == {"200", "500", "timeout"}

\* The price _simulate_price_data makes up (random.uniform around a base
\* price), on the scale of the market prices.
SimulatedPrices == MarketPrices

\* MarketDataService.get_current_price in live mode: the ticker price, and
\* simulated data for any other status and for an exception.
get_current_price(response, ticker_price, simulated_price) ==
    IF response = "200" THEN [price |-> ticker_price, simulation |-> FALSE]
    ELSE [price |-> simulated_price, simulation |-> TRUE]

\* EnhancedMarketDataService.get_historical_prices in live mode: the closing
\* prices of the candles, and a simulated series for any other status and
\* for an exception.
get_historical_prices(response) ==
    IF response = "200" THEN "candles" ELSE "simulated"

\* analyze_and_trade, lines 174-229: the price and the historical series are
\* fetched; the latest snapshot, the positions and the position of the
\* symbol are read.  The snapshot and the quantities are used by the entry
\* only.  market_failed: a request to the exchange did not give data.
analyze(e, ticker, ticker_price, simulated_price, candles) ==
    /\ eng[e].pc = "analyze"
    /\ LET existing_position == find_one(positions, Symbols[eng[e].sym])
           price_data == get_current_price(ticker, ticker_price, simulated_price)
           historical_prices == get_historical_prices(candles)
       IN  eng' = [eng EXCEPT
                      ![e].order = "none",
                      ![e].error = "none",
                      ![e].price = price_data.price,
                      ![e].market_failed = price_data.simulation
                                           \/ historical_prices = "simulated",
                      ![e].existing = existing_position,
                      ![e].risk = IF existing_position = NoPosition
                                  THEN LatestMetrics ELSE DefaultMetrics,
                      ![e].quantities =
                          IF existing_position = NoPosition
                          THEN [i \in 1 .. Len(positions) |-> positions[i].quantity]
                          ELSE <<>>,
                      ![e].pc = IF existing_position = NoPosition
                                THEN "check_buy" ELSE "check_sell"]
    /\ UNCHANGED <<bot_config, positions, db_risk_metrics, trades, market_orders, ticks, market_analysis>>
    /\ UNCHANGED <<mvars, ovars, fvars>>

\* The signals and confidences the analyses of a symbol without a position
\* give, and those of a held symbol.
EntrySignals ==
    [tech_signal : {"BUY"}, tech_confidence : {90},
     mtf_action : {"BUY", "HOLD"}, mtf_confidence : {90},
     ai_signal : {"BUY"}, ai_confidence : {90}]

HeldSignals ==
    [tech_signal : {"HOLD"}, tech_confidence : {70}, rsi : {70},
     regime : {"neutral"}, signal : {"HOLD"}, buy_recommendation : {FALSE},
     combined_confidence : {60}, hours_held : {24}]

\* analyze_and_trade, lines 232-306, and check_buy_signal without a position:
\* the analysis is written to db.market_analysis (line 290); the order check_buy_signal submits is filled at the current price, and the
\* trade, the position and the cash are written (lines 356-403).
check_buy(e, a, correlation_allowed) ==
    /\ eng[e].pc = "check_buy"
    /\ LET l == eng[e]
           symbol == Symbols[l.sym]
           order == check_buy_signal(
                        [tech_signal |-> a.tech_signal,
                         tech_confidence |-> a.tech_confidence,
                         mtf_action |-> a.mtf_action,
                         mtf_confidence |-> a.mtf_confidence,
                         ai_signal |-> a.ai_signal,
                         ai_confidence |-> a.ai_confidence,
                         risk_metrics |-> l.risk,
                         quantities |-> l.quantities,
                         correlation_allowed |-> correlation_allowed,
                         existing_position |-> FALSE])
           position_size == order.quantity \div 100
       IN  /\ market_analysis' = Append(market_analysis,
                                            [symbol |-> symbol, tick |-> l.tick])
           /\ IF order.side = "BUY"
              THEN /\ market_orders' = Append(market_orders,
                                              [symbol |-> symbol, side |-> "BUY", tick |-> l.tick])
                   /\ trades' = Append(trades,
                                       [symbol |-> symbol, side |-> "BUY", pnl |-> 0,
                                        proceeds |-> 0, tick |-> l.tick])
                   /\ positions' = Append(positions,
                                          Position(symbol, position_size, l.price))
                   /\ db_risk_metrics' =
                          IF db_risk_metrics = <<>> THEN db_risk_metrics
                          ELSE [db_risk_metrics EXCEPT ![Len(db_risk_metrics)].cash_balance =
                                                        l.risk.cash_balance - position_size]
              ELSE UNCHANGED <<positions, db_risk_metrics, trades, market_orders>>
           /\ eng' = [eng EXCEPT ![e] = NextSymbol(l)]
    /\ UNCHANGED <<bot_config, ticks>>
    /\ UNCHANGED <<mvars, ovars, fvars>>

\* What place_market_order answers to a SELL: filled at the current price;
\* accepted with filled_price None (live trading, no fills in the response,
\* trading_service.py line 53); or refused.
OrderOutcomes == {"filled", "unpriced", "failed"}

\* analyze_and_trade, lines 232-296, and check_sell_signal, lines 407-507:
\* the analysis is written to db.market_analysis, the high water mark is
\* raised, the exit rules are applied and the market SELL is submitted.  With filled_price
\* None line 494 raises TypeError, caught at line 69.
check_sell(e, a, outcome) ==
    /\ eng[e].pc = "check_sell"
    /\ LET l == eng[e]
           symbol == Symbols[l.sym]
           position == l.existing
           pnl == (position.quantity * l.price) \div position.avg_price - position.quantity
           pnl_percent == (pnl * 100) \div position.quantity
           high_water_mark == IF l.price > position.high_water_mark THEN l.price
                              ELSE position.high_water_mark
           exit == exit_rules(
                       [pnl_percent |-> pnl_percent,
                        drawdown_from_high |->
                            ((high_water_mark - l.price) * 100) \div high_water_mark,
                        tech_signal |-> a.tech_signal,
                        tech_confidence |-> a.tech_confidence,
                        rsi |-> a.rsi, regime |-> a.regime, signal |-> a.signal,
                        buy_recommendation |-> a.buy_recommendation,
                        combined_confidence |-> a.combined_confidence,
                        hours_held |-> a.hours_held])
           final_value == (position.quantity * l.price) \div position.avg_price
       IN  /\ market_analysis' = Append(market_analysis,
                                            [symbol |-> symbol, tick |-> l.tick])
           /\ positions' = IF l.price > position.high_water_mark
                           THEN update_one(positions, symbol, "high_water_mark", l.price)
                           ELSE positions
           /\ IF exit.should_sell
              THEN /\ market_orders' = Append(market_orders,
                                              [symbol |-> symbol, side |-> "SELL", tick |-> l.tick])
                   /\ eng' = [eng EXCEPT ![e] =
                                 IF outcome = "filled"
                                 THEN [l EXCEPT !.pc = "trade_insert",
                                                !.order = outcome,
                                                !.final_value = final_value,
                                                !.final_pnl = final_value - position.quantity]
                                 ELSE NextSymbol([l EXCEPT !.order = outcome])]
              ELSE /\ outcome = "failed"
                   /\ market_orders' = market_orders
                   /\ eng' = [eng EXCEPT ![e] = NextSymbol(l)]
    /\ UNCHANGED <<bot_config, db_risk_metrics, trades, ticks>>
    /\ UNCHANGED <<mvars, ovars, fvars>>

\* check_sell_signal, lines 499-514: the SELL trade is recorded.
trade_insert(e) ==
    /\ eng[e].pc = "trade_insert"
    /\ trades' = Append(trades,
                        [symbol |-> Symbols[eng[e].sym], side |-> "SELL",
                         pnl |-> eng[e].final_pnl, proceeds |-> eng[e].final_value,
                         tick |-> eng[e].tick])
    /\ eng' = [eng EXCEPT ![e].pc = "delete_position"]
    /\ UNCHANGED <<bot_config, positions, db_risk_metrics, market_orders, ticks, market_analysis>>
    /\ UNCHANGED <<mvars, ovars, fvars>>

\* check_sell_signal, line 517: the position is removed.
delete_position(e) ==
    /\ eng[e].pc = "delete_position"
    /\ positions' = delete_one(positions, Symbols[eng[e].sym])
    /\ eng' = [eng EXCEPT ![e].pc = "find_risk"]
    /\ UNCHANGED <<bot_config, db_risk_metrics, trades, market_orders, ticks, market_analysis>>
    /\ UNCHANGED <<mvars, ovars, fvars>>

\* check_sell_signal, lines 522-527: the latest snapshot is read.
find_risk(e) ==
    /\ eng[e].pc = "find_risk"
    /\ eng' = [eng EXCEPT ![e].new_cash = LatestMetrics.cash_balance + eng[e].final_value,
                          ![e].pc = "update_cash"]
    /\ UNCHANGED <<bot_config, positions, db_risk_metrics, trades, market_orders, ticks, market_analysis>>
    /\ UNCHANGED <<mvars, ovars, fvars>>

\* check_sell_signal, lines 528-532: cash_balance of the latest snapshot is
\* set.
update_cash(e) ==
    /\ eng[e].pc = "update_cash"
    /\ db_risk_metrics' =
           IF db_risk_metrics = <<>> THEN db_risk_metrics
           ELSE [db_risk_metrics EXCEPT ![Len(db_risk_metrics)].cash_balance = eng[e].new_cash]
    /\ eng' = [eng EXCEPT ![e] = NextSymbol(eng[e])]
    /\ UNCHANGED <<bot_config, positions, trades, market_orders, ticks, market_analysis>>
    /\ UNCHANGED <<mvars, ovars, fvars>>

\* The steps of analyze_and_trade, each at an awaited operation.
SymbolSteps ==
    {"analyze", "check_buy", "check_sell", "trade_insert", "delete_position",
     "find_risk", "update_cash"}

\* The steps of update_positions and update_risk_metrics outside the
\* try block of a position, each at an awaited operation.
CycleSteps ==
    {"update_positions", "risk_positions", "risk_prev", "risk_daily", "risk_insert"}

\* The exception of a symbol leaves trading_cycle (lines 66-70 without the
\* try block): it is caught at line 42 and the cycle is over.
symbol_failed_propagates(e) ==
    /\ eng[e].pc \in SymbolSteps
    /\ eng' = [eng EXCEPT ![e] = [Sleeping EXCEPT !.error = "cycle"]]
    /\ UNCHANGED <<bot_config, positions, db_risk_metrics, trades, market_orders,
                   market_analysis, ticks>>
    /\ UNCHANGED <<mvars, ovars, fvars>>

\* trading_cycle, lines 66-70: the operation analyze_and_trade awaits at
\* this step raises without effect; the exception is caught and logged at
\* line 69 and the loop goes on with the next symbol.
symbol_failed(e) ==
    /\ eng[e].pc \in SymbolSteps
    /\ eng' = [eng EXCEPT ![e] = [NextSymbol(eng[e]) EXCEPT !.error = "symbol"]]
    /\ UNCHANGED <<bot_config, positions, db_risk_metrics, trades, market_orders,
                   market_analysis, ticks>>
    /\ UNCHANGED <<mvars, ovars, fvars>>

\* update_positions, lines 77-100: the price request or the update of the
\* position raises; the exception is caught at line 99 and the loop goes on
\* with the next position.
position_failed(e) ==
    /\ eng[e].pc = "update_position"
    /\ eng' = [eng EXCEPT ![e].todo = Tail(eng[e].todo),
                          ![e].pc = IF Tail(eng[e].todo) = <<>>
                                    THEN "risk_positions"
                                    ELSE "update_position"]
    /\ UNCHANGED <<bot_config, positions, db_risk_metrics, trades, market_orders,
                   market_analysis, ticks>>
    /\ UNCHANGED <<mvars, ovars, fvars>>

\* start, lines 38-44: the find of the configuration (line 54), of
\* update_positions or an operation of update_risk_metrics raises; the
\* exception leaves trading_cycle, is caught and logged at line 42 and the
\* loop sleeps until the next cycle.
cycle_failed(e) ==
    /\ \/ /\ eng[e].pc = "sleep"
          /\ ticks < MaxTicks
          /\ ticks' = ticks + 1
       \/ /\ eng[e].pc \in CycleSteps
          /\ ticks' = ticks
    /\ eng' = [eng EXCEPT ![e] = [Sleeping EXCEPT !.error = "cycle"]]
    /\ UNCHANGED <<bot_config, positions, db_risk_metrics, trades, market_orders,
                   market_analysis>>
    /\ UNCHANGED <<mvars, ovars, fvars>>

\* server.py, POST /bot/start and POST /bot/stop: is_active of the tenant's
\* configuration is set.
set_is_active(value) ==
    /\ bot_config.is_active # value
    /\ bot_config' = [bot_config EXCEPT !.is_active = value]
    /\ UNCHANGED <<positions, db_risk_metrics, trades, market_orders,
                   market_analysis, ticks, eng>>
    /\ UNCHANGED <<mvars, ovars, fvars>>

NextEngine ==
    \E e \in Engines :
        \/ trading_cycle(e)
        \/ update_positions(e)
        \/ \E p \in MarketPrices : update_position(e, p)
        \/ risk_positions(e)
        \/ risk_prev(e)
        \/ risk_daily(e)
        \/ risk_insert(e)
        \/ \E p \in MarketPrices : analyze(e, "200", p, p, "200")
        \/ \E a \in EntrySignals, c \in BOOLEAN : check_buy(e, a, c)
        \/ \E a \in HeldSignals, o \in OrderOutcomes : check_sell(e, a, o)
        \/ trade_insert(e)
        \/ delete_position(e)
        \/ find_risk(e)
        \/ update_cash(e)

\* The cycle of a single loop with its collaborators failing and the tenant
\* switched on and off meanwhile.
NextFaults ==
    \/ \E e \in {1} :
           \/ trading_cycle(e)
           \/ update_positions(e)
           \/ \E p \in MarketPrices : update_position(e, p)
           \/ risk_positions(e)
           \/ risk_prev(e)
           \/ risk_daily(e)
           \/ risk_insert(e)
           \/ \E r, h \in MarketResponses, p \in MarketPrices, q \in SimulatedPrices :
                  analyze(e, r, p, q, h)
           \/ \E a \in EntrySignals, c \in BOOLEAN : check_buy(e, a, c)
           \/ \E a \in HeldSignals, o \in OrderOutcomes : check_sell(e, a, o)
           \/ trade_insert(e)
           \/ delete_position(e)
           \/ find_risk(e)
           \/ update_cash(e)
           \/ symbol_failed(e)
           \/ position_failed(e)
           \/ cycle_failed(e)
    \/ \E value \in BOOLEAN : set_is_active(value)

\* ------------------------------------------------ position size functions
\* calculate_position_size (risk_manager.py 44-65) in cents: signal_strength
\* and volatility are in hundredths, confidence in percent, so that
\* kelly_fraction = signal_strength * confidence / (4 * volatility^2) before
\* it is capped at max_risk_per_trade = 0.02.
calculate_position_size(signal_strength, confidence, available_capital, volatility) ==
    LET edge == signal_strength * confidence
        capped_kelly == volatility > 0 /\ edge * 50 >= 4 * volatility * volatility
        position_size ==
            IF volatility <= 0 THEN 0
            ELSE IF capped_kelly THEN available_capital * 2
            ELSE Round(available_capital * 25 * edge, volatility * volatility)
        maximum == available_capital * 5
        limited == IF position_size < maximum THEN position_size ELSE maximum
    IN  IF limited < 1000 THEN 1000 ELSE limited

\* The arguments the two size functions are applied to: capital in dollars,
\* at and below the $200 where 5% of it is $10.
Capitals == {100, 199, 200, 10000}
SignalStrengths == {0, 1, 100}
SizeConfidences == {0, 60, 100}
Volatilities == {0, 10, 50}
CombinedThousandths == {0, 50, 60000, 95000}
Heats == {0, 750, 1500, 1600}

call_calculate_position_size(signal_strength, confidence, available_capital, volatility) ==
    /\ called = NoCall
    /\ called' = [fn |-> "calculate_position_size",
                  signal_strength |-> signal_strength, confidence |-> confidence,
                  capital |-> available_capital, volatility |-> volatility,
                  result |-> calculate_position_size(signal_strength, confidence,
                                                     available_capital, volatility)]
    /\ UNCHANGED <<mvars, ovars, evars>>

call_calculate_optimal_position_size(confidence, total_equity, heat) ==
    /\ called = NoCall
    /\ called' = [fn |-> "calculate_optimal_position_size",
                  confidence |-> confidence, capital |-> total_equity, heat |-> heat,
                  result |-> calculate_optimal_position_size(confidence, total_equity, heat)]
    /\ UNCHANGED <<mvars, ovars, evars>>

NextSize ==
    \/ \E g \in SignalStrengths, c \in SizeConfidences, k \in Capitals, v \in Volatilities :
           call_calculate_position_size(g, c, k, v)
    \/ \E c \in CombinedThousandths, k \in Capitals, h \in Heats :
           call_calculate_optimal_position_size(c, k, h)

Init == InitManager /\ InitOrderManager /\ InitCalls /\ InitEngine({97}, {<<>>})

\* The loops of an active tenant, with the manager and the order manager at
\* rest.
InitLoops ==
    /\ InitManager /\ InitOrderManager /\ InitCalls
    /\ is_active = [u \in DOMAIN is_active |-> TRUE]
    /\ InitEngine(CapitalFloors, InitialPortfolios)

SpecEngine == InitLoops /\ [][NextEngine]_vars

\* One held position, one configured floor.
InitFaults ==
    /\ InitManager /\ InitOrderManager /\ InitCalls
    /\ is_active = [u \in DOMAIN is_active |-> TRUE]
    /\ InitEngine({97}, {<<Position("BTC-USD", 1000, 100)>>})

SpecFaults == InitFaults /\ [][NextFaults]_vars

SpecEntry == Init /\ [][NextEntry]_vars

SpecExit == Init /\ [][NextExit]_vars

SpecRisk == Init /\ [][NextRisk]_vars

SpecSize == Init /\ [][NextSize]_vars

\* Steps of the calls in flight, shared by the specifications below.
OrderSteps ==
    \/ place_written
    \/ place_resume
    \/ place_insert_failed
    \/ check_written
    \/ check_resume
    \/ check_update_failed
    \/ \E o \in OrderIds : cancel_begin(o)
    \/ cancel_written
    \/ cancel_resume
    \/ cancel_update_failed

\* One order, every parameter combination, every price: the trigger rules.
NextTrigger ==
    \/ \E s \in Sides, n \in Quantities, l \in Levels :
           place_limit_order(s, n, l, TriggerOrders)
    \/ \E s \in Sides, n \in Quantities, t \in Levels, l \in Levels :
           place_stop_limit_order(s, n, t, l, TriggerOrders)
    \/ \E n \in Quantities, t \in Levels, l \in Levels :
           place_oco_order(n, t, l, TriggerOrders)
    \/ \E p \in Prices : check_begin(p)
    \/ OrderSteps

SpecTrigger == Init /\ [][NextTrigger]_vars

\* Several orders of a few shapes, placed, checked and cancelled by
\* concurrent calls on the one manager object.
NextOrders ==
    \/ \E s \in {"BUY", "SELL"} : place_limit_order(s, 1, 90, MaxOrders)
    \/ place_stop_limit_order("BUY", 1, 90, 110, MaxOrders)
    \/ place_oco_order(1, 110, 90, MaxOrders)
    \/ \E p \in {90, 111} : check_begin(p)
    \/ OrderSteps

SpecOrders == Init /\ [][NextOrders]_vars

NextManager ==
    \/ \E u \in Tenants, b \in BOOLEAN : SetActive(u, b)
    \/ start_manager_begin
    \/ start_manager_find
    \/ start_manager_check
    \/ start_manager_stopped
    \/ start_manager_wake
    \/ start_manager_dberror
    \/ stop_manager_begin
    \/ stop_manager_stopped
    \/ \E u \in Tenants : call_start_bot(u)
    \/ \E c \in Callers, u \in Tenants : call_stop_bot(c, u)
    \/ \E c \in Callers : call_stop_bot_stopped(c)
    \/ \E t \in TaskIds : task_cancelled(t)
    \/ \E t \in TaskIds : task_first_run(t)
    \/ \E t \in TaskIds : task_tick_end(t)
    \/ \E t \in TaskIds : task_wake(t)

SpecManager == Init /\ [][NextManager]_vars

\* The event loop runs every coroutine that is ready: the reconcile loop, the
\* tenant tasks and every stop_bot whose task is done continue.  The callers
\* (config changes, direct calls) need not act, the database answers, and the
\* application is not shut down.
ManagerSteps ==
    \/ start_manager_begin
    \/ start_manager_find
    \/ start_manager_check
    \/ start_manager_stopped
    \/ start_manager_wake

StopSteps == \E c \in Callers : call_stop_bot_stopped(c)

TaskSteps(t) ==
    \/ task_cancelled(t)
    \/ task_first_run(t)
    \/ task_tick_end(t)
    \/ task_wake(t)

NextManagerLive ==
    \/ \E u \in Tenants, b \in BOOLEAN : SetActive(u, b)
    \/ ManagerSteps
    \/ StopSteps
    \/ \E u \in Tenants : call_start_bot(u)
    \/ \E c \in Callers, u \in Tenants : call_stop_bot(c, u)
    \/ \E t \in TaskIds : TaskSteps(t)

SpecManagerLive ==
    /\ Init
    /\ [][NextManagerLive]_vars
    /\ WF_vars(ManagerSteps)
    /\ WF_vars(StopSteps)
    /\ \A t \in TaskIds : WF_vars(TaskSteps(t))

\* ----------------------------------------------------------------- claims
LiveTasks(u) == {t \in TaskIds : Live(t) /\ task_user[t] = u}

\* C1: in every reachable state there is at most one live (not finished)
\* decision-loop task per tenant id, under any interleaving of the reconcile
\* loop, start_bot, stop_bot and stop_manager.
C1_AtMostOneLiveLoop == \A u \in Tenants : Cardinality(LiveTasks(u)) <= 1


Registered(u) == active_bots[u] # NoTask

ManagerUp == sm.pc = "idle" /\ mgr.pc # "exited"

\* C3: while the supervisor runs, a tenant whose config is and stays active
\* eventually has a running registered task, and a tenant whose config is and
\* stays inactive eventually has no live task and is not registered.
C3_ReconcileConverges ==
    \A u \in Tenants :
        /\ (is_active[u] /\ ManagerUp) ~>
               \/ Registered(u) /\ Live(active_bots[u])
               \/ ~is_active[u]
               \/ ~ManagerUp
        /\ (~is_active[u] /\ ManagerUp) ~>
               \/ ~Registered(u) /\ LiveTasks(u) = {}
               \/ is_active[u]
               \/ ~ManagerUp

\* A stop_bot call for tenant u returns after its await (no KeyError).
StopBotReturns(u) ==
    /\ Registered(u)
    /\ \/ \E c \in Callers : api[c].cur = u /\ call_stop_bot_stopped(c)
       \/ mgr.cur = u /\ start_manager_stopped
       \/ sm.cur = u /\ stop_manager_stopped

\* C4: a task whose stop was requested starts no further tick, and when
\* stop_bot returns the tenant is in neither active_bots nor bot_engines.
C4_StopAwaited ==
    [][/\ \A t \in TaskIds :
              must_cancel[t] => ~(task_state[t] # "tick" /\ task_state'[t] = "tick")
       /\ \A u \in Tenants :
              StopBotReturns(u) => ~Registered(u)' /\ bot_engines'[u] = NoTask]_vars

\* ------------------------------------------------- conditional orders
\* C5: the durable status of an order changes only PENDING -> EXECUTED or
\* PENDING -> CANCELLED (after its creation as PENDING), and never again once
\* it is EXECUTED or CANCELLED, whatever cancel_order and
\* check_pending_orders calls overlap.
C5_StatusMonotonic ==
    [][\A o \in OrderIds :
          db_status'[o] # db_status[o] =>
              \/ db_status[o] = "NONE" /\ db_status'[o] = "PENDING"
              \/ db_status[o] = "PENDING" /\ db_status'[o] \in {"EXECUTED", "CANCELLED"}]_vars

\* A step in which a check_pending_orders call ends.
CheckReturns ==
    /\ (\E p \in Prices : check_begin(p)) \/ check_resume \/ check_update_failed
    /\ chk'.pc = "idle"

\* C6: when a check ends, every order it sent to execution with success is
\* EXECUTED in storage and out of the index; every order whose execution
\* reported failure is still PENDING in the index and in storage (unless it
\* was cancelled meanwhile); and no order was evaluated twice in the check.
C6_CheckOutcome ==
    [][CheckReturns =>
          \A i \in 1..Len(chk'.log) :
              LET e == chk'.log[i]
              IN  /\ e.sent /\ e.ok =>
                         db_status'[e.id] = "EXECUTED" /\ e.id \notin pending_orders'
                  /\ e.sent /\ ~e.ok =>
                         \/ e.id \in pending_orders' /\ db_status'[e.id] = "PENDING"
                         \/ db_status'[e.id] = "CANCELLED"
                  /\ \A j \in 1..Len(chk'.log) : j # i => chk'.log[j].id # e.id]_vars

\* C7: cancel_order on an order that is PENDING removes it from the index and
\* returns success with the stored status CANCELLED; on any other id it
\* returns 'Order not found' and changes neither the index nor a status.
C7_CancelOutcome ==
    [][/\ \A o \in OrderIds :
              cancel_begin(o) =>
                  IF db_status[o] = "PENDING"
                  THEN o \notin pending_orders' /\ cnl'.pc = "update"
                  ELSE /\ cnl'.result = "Order not found"
                       /\ UNCHANGED <<pending_orders, db_status>>
       /\ cnl.pc = "update" /\ cnl'.pc = "idle" =>
              cnl'.result = "Order cancelled" /\ db_status'[cnl.cur] = "CANCELLED"]_vars

\* The entries of the running (or last) check, with the order each is about.
Evaluated == {[e |-> chk.log[i], order |-> orders[chk.log[i].id]] : i \in 1..Len(chk.log)}

\* C8: at a check with a price for its symbol, an OCO order is sent to
\* execution exactly when the price is at or above its take-profit level
\* (reason 'Take Profit') or at or below its stop-loss level (reason 'Stop
\* Loss'), always as a SELL; it is not sent when the price is strictly
\* between the stop-loss and the take-profit level.
C8_OcoTrigger ==
    \A x \in Evaluated :
        x.order.type = "OCO" =>
            LET tp == x.order.take_profit_price
                sl == x.order.stop_loss_price
                p == chk.price
            IN  /\ x.e.sent <=> (p >= tp \/ p <= sl)
                /\ x.e.sent => x.e.side = "SELL"
                /\ x.e.sent /\ x.e.reason = "Take Profit" => p >= tp
                /\ x.e.sent /\ x.e.reason = "Stop Loss" => p <= sl
                /\ x.e.sent => x.e.reason \in {"Take Profit", "Stop Loss"}
                /\ p >= tp => x.e.reason = "Take Profit"
                /\ sl < p /\ p < tp => ~x.e.sent

\* The OCO of the scenario (take profit 110, stop loss 90) is executed, for
\* the first time, at price 111 as a SELL for 'Take Profit'.
C8_Witness ==
    /\ chk.price = 111
    /\ \E x \in Evaluated :
           /\ x.order.type = "OCO"
           /\ x.order.take_profit_price = 110
           /\ x.order.stop_loss_price = 90
           /\ x.e.sent /\ x.e.ok
           /\ x.e.side = "SELL" /\ x.e.reason = "Take Profit"
           /\ fills[x.e.id] = 1
           /\ db_status[x.e.id] = "EXECUTED"

\* C9: at a check with a price for its symbol, a LIMIT order is sent to
\* execution exactly when BUY and price <= limit, or SELL and price >= limit;
\* a STOP_LIMIT order is sent only when its stop is crossed (BUY: price >=
\* stop, SELL: price <= stop) and its limit condition holds at that price.
C9_LimitTrigger ==
    \A x \in Evaluated :
        LET o == x.order
            p == chk.price
            limit_ok == \/ o.side = "BUY" /\ p <= o.limit_price
                        \/ o.side = "SELL" /\ p >= o.limit_price
            stop_ok == \/ o.side = "BUY" /\ p >= o.stop_price
                       \/ o.side = "SELL" /\ p <= o.stop_price
        IN  /\ o.type = "LIMIT" => (x.e.sent <=> limit_ok)
            /\ o.type = "STOP_LIMIT" => (x.e.sent => stop_ok /\ limit_ok)
            /\ o.type \in {"LIMIT", "STOP_LIMIT"} /\ x.e.sent => x.e.side = o.side

\* A BUY stop-limit (stop 90, limit 110) is executed at price 95, above its
\* stop and below its limit.
C9_Witness ==
    /\ chk.price = 95
    /\ \E x \in Evaluated :
           /\ x.order.type = "STOP_LIMIT"
           /\ x.order.side = "BUY"
           /\ x.order.stop_price = 90
           /\ x.order.limit_price = 110
           /\ x.e.sent /\ x.e.ok
           /\ db_status[x.e.id] = "EXECUTED"

\* Parameters the placement should accept.
WellFormed(order) ==
    /\ order.quantity > 0
    /\ order.type \in {"LIMIT", "STOP_LIMIT"} =>
           order.side \in {"BUY", "SELL"} /\ order.limit_price > 0
    /\ order.type = "STOP_LIMIT" => order.stop_price > 0
    /\ order.type = "OCO" =>
           /\ order.stop_loss_price > 0
           /\ order.take_profit_price > order.stop_loss_price

\* C10: an order with malformed parameters is never in the pending index and
\* never stored with status PENDING.
C10_MalformedRejected ==
    \A o \in OrderIds :
        o \in pending_orders \/ db_status[o] = "PENDING" => WellFormed(orders[o])

\* ---------------------------------------------------------------- risk gate
\* C18: validate_trade approves exactly when the equity is not below 97% of
\* the maximum equity, the daily loss is not beyond 1.5% of it, the
\* confidence is at least 60 and the signal recommends a buy; the reason is
\* that of the first failing check in the order floor, loss, confidence,
\* signal.
C18_ValidateTrade ==
    called.fn = "validate_trade" =>
        LET m == called.risk_metrics
            r == called.result
            floor_passes == m.total_equity * 100 >= m.max_equity * 97
            loss_passes == m.daily_pnl * 1000 >= -(m.max_equity * 15)
            confident == called.signal.confidence >= 60
            buy == called.signal.buy_recommendation
        IN  /\ r.approved <=> (floor_passes /\ loss_passes /\ confident /\ buy)
            /\ ~floor_passes => r.reason = "Capital floor breach - trading halted"
            /\ floor_passes /\ ~loss_passes => r.reason = "Daily loss limit reached"
            /\ floor_passes /\ loss_passes /\ ~confident =>
                   r.reason = "Signal confidence too low"
            /\ floor_passes /\ loss_passes /\ confident /\ ~buy =>
                   r.reason = "No strong buy signal"
            /\ r.approved => r.reason = "All checks passed"

\* A trade is rejected with floor and daily loss both breached: the reason
\* is the floor's.
C18_Witness ==
    /\ called.fn = "validate_trade"
    /\ ~called.result.floor_check
    /\ ~called.result.loss_check
    /\ ~called.result.approved
    /\ called.result.reason = "Capital floor breach - trading halted"

\* ---------------------------------------------------------------- exit rules
\* The rules (a) to (h) that hold in a situation, as their numbers 1 to 8.
Matching(x) ==
    {k \in 1..8 :
        \/ k = 1 /\ x.pnl_percent > 3 /\ x.drawdown_from_high >= 2
        \/ k = 2 /\ x.pnl_percent >= 5
        \/ k = 3 /\ x.pnl_percent <= -3
        \/ k = 4 /\ x.tech_signal = "SELL" /\ x.tech_confidence > 70
        \/ k = 5 /\ x.rsi > 70 /\ x.pnl_percent > 2
        \/ k = 6 /\ x.regime \in {"strong_downtrend", "downtrend"} /\ x.pnl_percent < 3
        \/ k = 7 /\ (x.signal = "SELL" \/ ~x.buy_recommendation)
                 /\ x.tech_signal = "SELL" /\ x.combined_confidence > 60
        \/ k = 8 /\ x.hours_held > 24 /\ x.pnl_percent < 2}

RuleReason ==
    <<"Trailing stop triggered", "Profit target reached (+5%)",
      "Stop loss triggered (-3%)", "Strong technical sell signal",
      "RSI overbought", "Market regime changed",
      "Combined AI + Technical sell signal",
      "Time-based exit (24h hold with <2% gain)">>

\* C19: the exit decision is a sell exactly when one of the rules (a) to (h)
\* holds, and the reason is that of the earliest rule that holds.
C19_FirstRuleWins ==
    called.fn = "exit_rules" =>
        LET rules == Matching(called.x)
        IN  /\ called.result.should_sell <=> rules # {}
            /\ rules # {} =>
                   called.result.sell_reason =
                       RuleReason[CHOOSE k \in rules : \A j \in rules : k <= j]

\* ---------------------------------------------------------------- entries
\* The conditions of an entry, from the arguments of the decision.
AllBuy(x) == x.tech_signal = "BUY" /\ x.mtf_action = "BUY" /\ x.ai_signal = "BUY"

ConfidenceOf(x) ==
    LET weighted == 4 * x.ai_confidence + 3 * x.tech_confidence + 3 * x.mtf_confidence
    IN  IF x.tech_signal = x.mtf_action /\ x.mtf_action = x.ai_signal
        THEN (IF weighted * 115 < 95000 THEN weighted * 115 ELSE 95000)
        ELSE weighted * 75

FloorBreached(x) == x.risk_metrics.total_equity * 100 < x.risk_metrics.max_equity * 97

LossBreached(x) == x.risk_metrics.daily_pnl * 1000 < -(x.risk_metrics.max_equity * 15)

\* Portfolio heat at or above 15%: 3% of the invested capital against 15% of
\* the equity.
HeatHigh(x) == x.quantities # <<>> /\ Sum(x.quantities) * 3 >= x.risk_metrics.total_equity * 15

EntryConditions(x) ==
    /\ ~x.existing_position
    /\ AllBuy(x)
    /\ ~FloorBreached(x) /\ ~LossBreached(x) /\ ConfidenceOf(x) >= 60000
    /\ ~HeatHigh(x)
    /\ x.correlation_allowed

\* C16: when the tenant has no position in the symbol, the three signals are
\* BUY, the risk gate approves, heat is below 15% and the correlation check
\* passes (the size is then at least $10), the engine submits a market BUY.
C16_EntryExecuted ==
    called.fn = "analyze_entry" /\ EntryConditions(called.x) =>
        called.result.side = "BUY" /\ called.result.quantity >= 1000

\* C17: no market BUY is submitted when a position is open, the floor or the
\* daily-loss limit is breached, the confidence is below 60, the signals are
\* not all BUY, heat is at or above 15% or the correlation check fails.
C17_EntryGated ==
    called.fn = "analyze_entry" /\ ~EntryConditions(called.x) =>
        called.result.side # "BUY"

\* An entry is refused for a breached capital floor although the three
\* signals are BUY.
C17_Witness ==
    /\ called.fn = "analyze_entry"
    /\ AllBuy(called.x)
    /\ FloorBreached(called.x)
    /\ ~called.x.existing_position
    /\ called.result.side = "NONE"
    /\ called.result.message = "Capital floor breach - trading halted"

\* ------------------------------------------------------------- snapshots
\* C11: in insertion order, max_equity of the tenant's snapshots never
\* decreases.
C11_MaxEquityMonotone ==
    \A i \in 2 .. Len(db_risk_metrics) :
        db_risk_metrics[i].max_equity >= db_risk_metrics[i - 1].max_equity

\* C12: every snapshot an engine appends has equity_floor equal to its
\* max_equity times the capital-floor fraction of the tenant's configuration
\* (equity_floor is in hundredths, the fraction in percent).
C12_FloorFollowsConfig ==
    \A i \in 1 .. Len(db_risk_metrics) :
        db_risk_metrics[i].tick > 0 =>
            db_risk_metrics[i].equity_floor =
                db_risk_metrics[i].max_equity * bot_config.capital_floor

\* The cycle of loop e ends in this step, and no other cycle has begun.
CycleEndsAlone(e) ==
    /\ ticks = 1
    /\ eng[e].pc # "sleep"
    /\ eng'[e].pc = "sleep"

\* C13: a cycle of an active tenant appends exactly one snapshot, and that
\* snapshot holds the value of the positions and the equity as they are when
\* the cycle ends, after its trades.
C13_SnapshotAfterTrades ==
    [][\A e \in Engines :
           CycleEndsAlone(e) =>
               LET own == {i \in 1 .. Len(db_risk_metrics') :
                               db_risk_metrics'[i].tick = eng[e].tick}
               IN  /\ Cardinality(own) = 1
                   /\ \A i \in own :
                          /\ db_risk_metrics'[i].positions_value =
                                 SumField(positions', "quantity")
                          /\ db_risk_metrics'[i].total_equity =
                                 db_risk_metrics'[i].cash_balance
                                 + SumField(positions', "quantity")
                                 + SumField(positions', "pnl")]_vars

\* C14: no step changes a field of a snapshot that is in the collection.
C14_SnapshotImmutable ==
    [][\A i \in 1 .. Len(db_risk_metrics) :
           /\ i <= Len(db_risk_metrics')
           /\ db_risk_metrics'[i] = db_risk_metrics[i]]_vars

\* ------------------------------------------------------------- positions
PositionsOf(symbol) == {i \in 1 .. Len(positions) : positions[i].symbol = symbol}

\* C15: the tenant has at most one position per symbol.
C15_OnePositionPerSymbol ==
    \A i \in 1 .. Len(Symbols) : Cardinality(PositionsOf(Symbols[i])) <= 1

\* Two loops have found no position for the same symbol and are both about
\* to decide its entry, while a position of the tenant is open.
C15_Witness ==
    /\ \E e, f \in Engines :
           /\ e # f
           /\ eng[e].pc = "check_buy" /\ eng[f].pc = "check_buy"
           /\ eng[e].sym = eng[f].sym
           /\ PositionsOf(Symbols[eng[e].sym]) = {}
    /\ positions # <<>>
    /\ C15_OnePositionPerSymbol

\* ------------------------------------------------------------------ exits
\* The symbol whose analysis loop e has just finished, when it is between
\* two symbols or at the end of its cycle.
Analysed(e) == IF eng[e].pc = "sleep" THEN Len(Symbols) ELSE eng[e].sym - 1

SellsOf(symbol) ==
    {i \in 1 .. Len(trades) : trades[i].symbol = symbol /\ trades[i].side = "SELL"}

\* C20: in a cycle run alone, after a market SELL that succeeded there is
\* exactly one SELL trade of the symbol, with the realized P&L, its position
\* is deleted and the cash balance is credited with the proceeds; after one
\* that failed there is no trade and the position is in place.
C20_ExitExecuted ==
    \A e \in Engines :
        ticks = 1 /\ eng[e].pc \in {"analyze", "sleep"} /\ eng[e].order # "none" =>
            LET symbol == Symbols[Analysed(e)]
            IN  IF eng[e].order = "failed"
                THEN /\ SellsOf(symbol) = {}
                     /\ PositionsOf(symbol) # {}
                     /\ LatestMetrics.cash_balance = db_risk_metrics[1].cash_balance
                ELSE /\ Cardinality(SellsOf(symbol)) = 1
                     /\ \A i \in SellsOf(symbol) :
                            trades[i].pnl = trades[i].proceeds - 1000
                     /\ PositionsOf(symbol) = {}
                     /\ LatestMetrics.cash_balance =
                            db_risk_metrics[1].cash_balance + SumField(trades, "proceeds")

\* ----------------------------------------------------------- exit rule (g)
\* C25: a position is closed with the reason of rule (g) only when the AI
\* recommendation is SELL, the technical signal is SELL and the combined
\* confidence is above 60, for an analysis as the AI service builds it
\* (buy_recommendation is recommendation == 'BUY').
C25_RuleGNeedsAiSell ==
    /\ called.fn = "exit_rules"
    /\ called.x.buy_recommendation = (called.x.signal = "BUY")
    /\ called.result.should_sell
    /\ called.result.sell_reason = "Combined AI + Technical sell signal"
    => /\ called.x.signal = "SELL"
       /\ called.x.tech_signal = "SELL"
       /\ called.x.combined_confidence > 60

\* ---------------------------------------------------------- position sizes
\* C23: calculate_position_size and calculate_optimal_position_size return 0
\* or a value from $10 to 5% of the capital (result in cents, capital in
\* dollars).
C23_SizeInRange ==
    called.fn \in {"calculate_position_size", "calculate_optimal_position_size"} =>
        \/ called.result = 0
        \/ called.result >= 1000 /\ called.result <= called.capital * 5

\* ------------------------------------------------- stop of an unknown id
\* C24: a stop_bot call for a tenant that is not in active_bots returns at
\* once and changes neither active_bots nor bot_engines nor any task or
\* engine.
C24_StopUnknownNoOp ==
    [][\A c \in Callers, u \in Tenants :
           call_stop_bot(c, u) /\ ~Registered(u) =>
               /\ UNCHANGED botvars
               /\ api' = api]_vars

\* One stop_bot call was made for a tenant that is not registered while the
\* other tenant's task, started by a direct start_bot call, runs on untouched
\* and registered.
C24_Witness ==
    /\ stop_calls = 1
    /\ start_calls = 1
    /\ mgr.pc = "init"
    /\ sm.pc = "idle"
    /\ \A c \in Callers : api[c].pc = "idle"
    /\ \E u, v \in Tenants :
           /\ u # v
           /\ ~Registered(u)
           /\ Registered(v) /\ Live(active_bots[v]) /\ ~must_cancel[active_bots[v]]
           /\ bot_engines[v] = active_bots[v]

\* ------------------------------------------------------ after stop_manager
\* C26: when stop_manager returns, no tenant task is live and active_bots
\* and bot_engines are empty, with the reconcile loop running and no direct
\* start_bot or stop_bot call made.
C26_NoZombies ==
    [][/\ sm.pc # "returned" /\ sm'.pc = "returned"
       /\ mgr.pc # "init" /\ start_calls = 0 /\ stop_calls = 0
       => /\ \A t \in TaskIds : ~Live(t)'
          /\ \A u \in Tenants : active_bots'[u] = NoTask /\ bot_engines'[u] = NoTask]_vars

\* --------------------------------------------- submissions and the index
\* C27: the trading service fills a market order for a pending order only
\* when it has filled none for it before and the order has not been
\* cancelled (it is in the index).
C27_AtMostOneFill ==
    [][\A o \in OrderIds :
           fills'[o] # fills[o] => fills[o] = 0 /\ o \in pending_orders]_vars

\* C28: whenever no placement, check or cancellation is in progress, the ids
\* in the pending index are the orders whose stored status is PENDING.
C28_IndexMirrorsStorage ==
    plc.pc = "idle" /\ chk.pc = "idle" /\ cnl.pc = "idle" =>
        pending_orders = {o \in OrderIds : db_status[o] = "PENDING"}



\* C30: for an open position the stored high_water_mark never decreases, so
\* after an exit evaluation it is at least avg_price and at least the price
\* the evaluation observed, and high_water_mark - current_price is never
\* negative.
C30_HighWaterMarkMonotone ==
    [][\A i \in 1 .. Len(Symbols) :
           LET symbol == Symbols[i]
           IN  /\ find_one(positions, symbol) # NoPosition
               /\ find_one(positions', symbol) # NoPosition
               => find_one(positions', symbol).high_water_mark
                      >= find_one(positions, symbol).high_water_mark]_vars

\* C22: when a request to the exchange fails or times out for a symbol
\* (current price or historical series), the engine skips the symbol for the
\* tick: it writes no analysis and submits no order for it.
C22_FailedDataSkipsSymbol ==
    [][\A e \in Engines :
           /\ eng[e].pc \in {"check_buy", "check_sell"}
           /\ eng[e].market_failed
           /\ eng'[e] # eng[e]
           => /\ market_analysis' = market_analysis
              /\ market_orders' = market_orders]_vars

\* C21: an exception raised while a symbol is evaluated ends the evaluation
\* of that symbol only: the loop goes on with the next symbol in the same
\* cycle, or sleeps until the next cycle after the last one; an exception
\* anywhere else in the cycle ends the cycle and the loop sleeps until the
\* next one.  No exception ends the loop.
C21_FailureIsolated ==
    [][\A e \in Engines :
           /\ eng'[e] # eng[e] /\ eng'[e].error = "symbol"
              => /\ eng[e].pc \in SymbolSteps
                 /\ IF eng[e].sym < Len(Symbols)
                    THEN /\ eng'[e].pc = "analyze"
                         /\ eng'[e].sym = eng[e].sym + 1
                         /\ eng'[e].tick = eng[e].tick
                    ELSE eng'[e].pc = "sleep"
           /\ eng'[e] # eng[e] /\ eng'[e].error = "cycle"
              => /\ eng[e].pc \in CycleSteps \cup {"sleep"}
                 /\ eng'[e].pc = "sleep"]_vars

\* The first symbol raised in the second cycle of the loop and the loop is
\* about to evaluate the second symbol in the same cycle.
C21_Witness ==
    \E e \in Engines :
        /\ eng[e].pc = "analyze" /\ eng[e].sym = 2 /\ eng[e].error = "symbol"
        /\ eng[e].tick = 2
        /\ \A i \in 1 .. Len(market_analysis) :
               ~(market_analysis[i].symbol = Symbols[1] /\ market_analysis[i].tick = 2)

\* C29: a cycle that finds the tenant inactive has no effect: no snapshot is
\* appended, no position updated, no analysis written, no order submitted
\* and no trade recorded, and the loop sleeps until the next cycle.
C29_InactiveTickNoEffect ==
    [][ticks' # ticks /\ ~bot_config.is_active
       => /\ UNCHANGED <<bot_config, positions, db_risk_metrics, market_analysis,
                         market_orders, trades>>
          /\ \A e \in Engines : eng[e].pc = "sleep" => eng'[e].pc = "sleep"]_vars

\* Cycles were begun, the tenant is inactive, every loop sleeps after a cycle
\* without an exception, and nothing was written since the loops started.
C29_Witness ==
    /\ ticks = MaxTicks
    /\ ~bot_config.is_active
    /\ \A e \in Engines : eng[e] = Sleeping
    /\ Len(db_risk_metrics) = 1
    /\ market_analysis = <<>> /\ market_orders = <<>> /\ trades = <<>>
    /\ \A i \in 1 .. Len(positions) : positions[i] = Position("BTC-USD", 1000, 100)
============================================================================
